---- MODULE Spec2Model ----
(***************************************************************************)
(* Model of the PET Resource Allocation ETL (src/src/etl.py) and of the    *)
(* Databricks loader (src/PET_Dashboard_Databricks.py).                     *)
(*                                                                         *)
(* A Python str is a sequence of one-character strings; a Python value     *)
(* handed to a function that tests its type is a tagged record (PyStr,     *)
(* PyNone, Float, NaN, Bool).  Long literals that the code only compares  *)
(* whole are written as sequences of words.                                *)
(***************************************************************************)
EXTENDS Integers, Sequences, FiniteSets, TLC

VARIABLES
    raw,        \* parse_employee: the argument of the call
    parsed,     \* parse_employee: the returned triple, <<>> before the call
    cols,       \* find_workstream_pairs: the list of column names
    pairs,      \* find_workstream_pairs: [called, val], val the returned list
    file,       \* the CSV file: its lines in order, each a list of str cells
    entry,      \* the loader called: "load_latest_csv" or
                \* "load_pet_data_databricks"
    file_format,            \* load_pet_data_databricks: its second argument
    pc,                     \* the loader's position
    df,                     \* the loader's DataFrame: [columns, rows]
    has_business_headers,   \* load_pet_data_databricks: the local
    header_row_idx,         \* load_pet_data_databricks: the local
    workstream_df,          \* load_pet_data_databricks: the local, the
                            \* assignment records in order
    hierarchy_df,           \* process_pet_csv: the local, the summary rows
    exc,                    \* the type of the exception raised, or "none"
    result,                 \* what process_pet_csv gives its caller:
                            \* [kind, type], kind "return" or "raise"
    data_dir,               \* PETDataStore: the files of the directory, a
                            \* set of [name, mtime, content]
    now,                    \* time.time(), in seconds
    last_check_time,        \* PETDataStore.last_check_time
    current_file,           \* PETDataStore.current_file: [some, val]
    current_data,           \* PETDataStore.current_data: [some, val]
    last_modified,          \* PETDataStore.last_modified: [some, val]
    returned                \* the last call of a method of the store that
                            \* has returned: [method, some, val, at,
                            \* processed], its value (some, val), the time
                            \* of the return, whether it ran process_pet_csv

parseVars == <<raw, parsed>>
pairVars == <<cols, pairs>>
procVars == <<hierarchy_df, exc, result>>
loadVars ==
    <<file, entry, file_format, pc, df, has_business_headers, header_row_idx,
      workstream_df, procVars>>
storeVars ==
    <<data_dir, now, last_check_time, current_file, current_data,
      last_modified, returned>>
vars == <<parseVars, pairVars, loadVars, storeVars>>

(***************************************************************************)
(* Bounds of the model.                                                    *)
(***************************************************************************)
MaxParts == 5      \* pieces concatenated into one parse_employee argument
MaxCols == 4       \* column names handed to find_workstream_pairs
MaxRows == 5       \* data rows of a file whose supervisor cells vary
MaxAllocRows == 2  \* data rows of a file whose percent and total cells vary
MaxFileRows == 11  \* lines of a file handed to the header classification
MaxScaleRows == 20 \* data rows of a file with one long percent column
MaxOutliers == 3   \* cells of that column outside [0, 1]
MaxMapCols == 3    \* columns of a file whose business header cells vary
MaxSumRows == 2    \* data rows of a file with two percent columns
MaxNoPairRows == 3 \* data rows of a file without workstream pair
MaxStatusRows == 1 \* data rows of a file whose status columns vary
MaxReadCols == 3   \* columns of a file handed to the reader alone
MaxReadRows == 2   \* rows of that file under its business header row
MaxAssignRows == 2 \* data rows of a file whose two percent columns give assignments
MaxSelfRows == 3   \* data rows of a file whose supervisor cells may hold "Self"
MaxOrgRows == 3    \* data rows of a file whose organisation cells vary
MaxUploads == 3     \* names under which files are uploaded
MaxTime == 1300    \* the clock stops here

(***************************************************************************)
(* Python values and str methods.                                          *)
(***************************************************************************)
\* a Python value: a str (s), None, a float in hundredths (n) or NaN, a bool
PyStr(s) == [tag |-> "str", s |-> s, n |-> 0]
PyNone == [tag |-> "NoneType", s |-> <<>>, n |-> 0]
Float(x) == [tag |-> "float", s |-> <<>>, n |-> x]
NaN == [tag |-> "nan", s |-> <<>>, n |-> 0]
Bool(b) == [tag |-> "bool", s |-> <<>>, n |-> IF b THEN 1 ELSE 0]
PyInt(k) == [tag |-> "int", s |-> <<>>, n |-> k]

Digits == {"0", "1", "2", "3", "4", "5", "6", "7", "8", "9"}
Whitespace == {" ", "\t"}

RECURSIVE Concat(_)
Concat(ss) == IF ss = <<>> THEN <<>> ELSE Head(ss) \o Concat(Tail(ss))

\* str.lstrip() / str.rstrip() / str.strip() with no argument
RECURSIVE lstrip(_)
lstrip(s) ==
    IF s # <<>> /\ Head(s) \in Whitespace THEN lstrip(Tail(s)) ELSE s

RECURSIVE rstrip(_)
rstrip(s) ==
    IF s # <<>> /\ s[Len(s)] \in Whitespace
    THEN rstrip(SubSeq(s, 1, Len(s) - 1))
    ELSE s

strip(s) == rstrip(lstrip(s))

\* sub occurs in s at position i (1-based)
OccursAt(s, sub, i) ==
    /\ i >= 1
    /\ i + Len(sub) - 1 <= Len(s)
    /\ SubSeq(s, i, i + Len(sub) - 1) = sub

\* str.find(sub, start): the least position >= i where sub occurs, 0 if none
RECURSIVE FindFrom(_, _, _)
FindFrom(s, sub, i) ==
    IF i + Len(sub) - 1 > Len(s) THEN 0
    ELSE IF OccursAt(s, sub, i) THEN i
    ELSE FindFrom(s, sub, i + 1)

\* the `in` operator on two strs
Contains(s, sub) == FindFrom(s, sub, 1) # 0

\* s.split(sep)[-1]: what follows the last separator of the left-to-right,
\* non-overlapping scan that str.split performs
RECURSIVE SplitLastFrom(_, _, _)
SplitLastFrom(s, sep, i) ==
    LET p == FindFrom(s, sep, i) IN
    IF p = 0 THEN SubSeq(s, i, Len(s))
    ELSE SplitLastFrom(s, sep, p + Len(sep))

SplitLast(s, sep) == SplitLastFrom(s, sep, 1)

\* re.sub(r'\D', '', s): the digits of s, in order
RECURSIVE DigitsOf(_)
DigitsOf(s) ==
    IF s = <<>> THEN <<>>
    ELSE IF Head(s) \in Digits THEN <<Head(s)>> \o DigitsOf(Tail(s))
    ELSE DigitsOf(Tail(s))

Colon == <<":">>
DashSep == <<" ", "-", " ">>

(***************************************************************************)
(* parse_employee (etl.py 64-74; the Databricks copy is identical).        *)
(* The result is the triple <<employee_id, resource_name, resource_title>>.*)
(***************************************************************************)
emp_id_of(before) ==
    IF DigitsOf(before) = <<>> THEN PyNone ELSE PyStr(DigitsOf(before))

name_of_title_nosplit(title) == title
name_of_title(title) ==
    IF Contains(title, DashSep) THEN strip(SplitLast(title, DashSep)) ELSE title

\* lines 68-74: the argument is a str
parse_str(s) ==
    LET c == FindFrom(s, Colon, 1) IN
    IF c # 0
    THEN LET title == strip(SubSeq(s, c + 1, Len(s)))
         IN  <<emp_id_of(SubSeq(s, 1, c - 1)),
               PyStr(name_of_title(title)),
               PyStr(title)>>
    ELSE <<PyNone, PyStr(strip(s)), PyStr(strip(s))>>

parse_employee_nocheck(v) == parse_str(v.s)
parse_employee(v) ==
    IF v.tag # "str" THEN <<PyNone, PyNone, PyNone>> ELSE parse_str(v.s)

(***************************************************************************)
(* Inputs of parse_employee: every concatenation of at most MaxParts       *)
(* pieces, the example of the documentation, and two non-str values.       *)
(***************************************************************************)
Pieces ==
    {<<"1">>, <<"a">>, <<":">>, <<" ">>, <<"-">>, <<"-", " ">>,
     <<" ", "-", " ">>}

PieceSeqs == UNION {[1..n -> Pieces] : n \in 0..MaxParts}

ExampleRaw ==
    <<"1", "2", "3", "4", "5", ":", " ", "R", "e", "q", " ", "-", " ",
      "J", "a", "n", "e", " ", "D", "o", "e">>
ExampleTitle ==
    <<"R", "e", "q", " ", "-", " ", "J", "a", "n", "e", " ", "D", "o", "e">>
ExampleName == <<"J", "a", "n", "e", " ", "D", "o", "e">>
ExampleId == <<"1", "2", "3", "4", "5">>
ExamplePlain == ExampleName

ParseInputs ==
    {PyStr(Concat(ps)) : ps \in PieceSeqs}
        \cup {PyStr(ExampleRaw), PyStr(ExamplePlain), PyNone, Float(350)}

IdleParse == raw = PyNone /\ parsed = <<>>
IdlePairs == cols = <<>> /\ pairs = [called |-> FALSE, val |-> <<>>]
EmptyFrame == [columns |-> <<>>, rows |-> <<>>]
None == [some |-> FALSE, val |-> <<>>]
Some(v) == [some |-> TRUE, val |-> v]
NoCall ==
    [method |-> "none", some |-> FALSE, val |-> <<>>, at |-> 0,
     processed |-> FALSE]
\* the store before it is constructed
IdleStore ==
    /\ data_dir = {}
    /\ now = 0
    /\ last_check_time = 0
    /\ current_file = None
    /\ current_data = None
    /\ last_modified = None
    /\ returned = NoCall
NoResult == [kind |-> "none", type |-> "none"]
IdleProc ==
    /\ hierarchy_df = <<>> /\ exc = "none" /\ result = NoResult
    /\ workstream_df = <<>>
    /\ IdleStore
IdleLoad ==
    /\ file = <<>>
    /\ entry = "none"
    /\ file_format = "auto"
    /\ pc = "idle"
    /\ df = EmptyFrame
    /\ has_business_headers = FALSE
    /\ header_row_idx = 0
    /\ IdleProc

InitParse ==
    /\ raw \in ParseInputs
    /\ parsed = <<>>
    /\ IdlePairs
    /\ IdleLoad

\* one call of parse_employee
ParseEmployee ==
    /\ parsed = <<>>
    /\ parsed' = parse_employee(raw)
    /\ UNCHANGED <<raw, pairVars, loadVars, storeVars>>

SpecParse == InitParse /\ [][ParseEmployee]_vars

(***************************************************************************)
(* Claims about parse_employee, checked under SpecParse.                   *)
(***************************************************************************)
Called == parsed # <<>>
HasColon(s) == Contains(s, Colon)
Blank(s) == strip(s) = <<>>
EndsWith(s, suf) ==
    Len(s) >= Len(suf) /\ SubSeq(s, Len(s) - Len(suf) + 1, Len(s)) = suf

\* the readings of a str as '<id>: <T> - <N>': c is the colon (the first one,
\* <id> holding none) and d the place of the " - " between <T> and <N>
Readings(s) ==
    LET c == FindFrom(s, Colon, 1) IN
    IF c = 0 \/ c + 1 > Len(s) THEN {}
    ELSE IF s[c + 1] # " " THEN {}
    ELSE {<<c, d>> : d \in {e \in (c + 2)..Len(s) : OccursAt(s, DashSep, e)}}
TitlePart(s, r) == SubSeq(s, r[1] + 2, r[2] - 1)
NamePart(s, r) == SubSeq(s, r[2] + 3, Len(s))
\* <T> and <N> are words and the " - " between them is the last separator
PlainReading(s, r) ==
    /\ ~Blank(TitlePart(s, r))
    /\ ~Blank(NamePart(s, r))
    /\ ~Contains(NamePart(s, r), DashSep)
    /\ ~EndsWith(TitlePart(s, r), <<" ", "-">>)

\* C6 as stated: "12345: Req - Jane Doe" gives id "12345", title "Req" and
\* name "Jane Doe"; for '<id>: <T> - <N>' the title is T and the name is N.
C6_TitleIsT ==
    (Called /\ raw.tag = "str") =>
        /\ raw.s = ExampleRaw =>
              parsed = <<PyStr(ExampleId), PyStr(ExampleName),
                         PyStr(<<"R", "e", "q">>)>>
        /\ \A r \in Readings(raw.s) :
              PlainReading(raw.s, r) =>
                  /\ parsed[3] = PyStr(strip(TitlePart(raw.s, r)))
                  /\ parsed[2] = PyStr(strip(NamePart(raw.s, r)))

\* C6 amended: "12345: Req - Jane Doe" gives id "12345", name "Jane Doe" and
\* title "Req - Jane Doe"; for '<id>: <T> - <N>' (no colon in <id>, T and N
\* not blank, no " - " in N, T not ending in " -") the title is the whole
\* trimmed remainder "T - N" and the name is N trimmed.
C6_TitleIsRemainder ==
    (Called /\ raw.tag = "str") =>
        /\ raw.s = ExampleRaw =>
              parsed = <<PyStr(ExampleId), PyStr(ExampleName),
                         PyStr(ExampleTitle)>>
        /\ \A r \in Readings(raw.s) :
              PlainReading(raw.s, r) =>
                  /\ parsed[3] = PyStr(strip(TitlePart(raw.s, r) \o DashSep
                                             \o NamePart(raw.s, r)))
                  /\ parsed[2] = PyStr(strip(NamePart(raw.s, r)))

C6_Witness ==
    /\ Called
    /\ raw = PyStr(ExampleRaw)
    /\ parsed[3] = PyStr(ExampleTitle)

\* position of the last occurrence of sub in s (str.rfind), 0 if none
LastOcc(s, sub) ==
    LET ps == {i \in 1..Len(s) : OccursAt(s, sub, i)} IN
    IF ps = {} THEN 0 ELSE CHOOSE i \in ps : \A j \in ps : j <= i

\* C7: for a str with a colon, the split is at the FIRST colon: employee_id
\* is the digits before it (null when none), resource_title the whole trimmed
\* remainder, resource_name the trimmed text after the LAST " - " of the
\* title, or the title when it has none.
C7_FirstColonLastDash ==
    (Called /\ raw.tag = "str" /\ HasColon(raw.s)) =>
        LET s == raw.s
            c == CHOOSE i \in 1..Len(s) :
                    s[i] = ":" /\ \A j \in 1..(i - 1) : s[j] # ":"
            before == SubSeq(s, 1, c - 1)
            title == strip(SubSeq(s, c + 1, Len(s)))
            p == LastOcc(title, DashSep)
        IN  /\ parsed[1] = IF DigitsOf(before) = <<>> THEN PyNone
                           ELSE PyStr(DigitsOf(before))
            /\ parsed[3] = PyStr(title)
            /\ parsed[2] = IF p = 0 THEN PyStr(title)
                           ELSE PyStr(strip(SubSeq(title, p + 3, Len(title))))

\* C8: a str with no colon gives a null id and name = title = the trimmed
\* input, also when it holds " - "; a value that is no str gives three nulls.
C8_NoColonOrNotStr ==
    Called =>
        /\ (raw.tag = "str" /\ ~HasColon(raw.s)) =>
              parsed = <<PyNone, PyStr(strip(raw.s)), PyStr(strip(raw.s))>>
        /\ raw.tag # "str" => parsed = <<PyNone, PyNone, PyNone>>

C8_Witness ==
    /\ Called
    /\ raw.tag = "str"
    /\ ~HasColon(raw.s)
    /\ Contains(strip(raw.s), DashSep)
    /\ strip(raw.s) # raw.s
    /\ parsed[2] = PyStr(strip(raw.s))
    /\ parsed[3] = PyStr(strip(raw.s))
    /\ parsed[1] = PyNone

(***************************************************************************)
(* find_workstream_pairs (etl.py 17-18, 48-62; the Databricks copy is      *)
(* identical).  The two patterns are matched as re.match does: the \s*,    *)
(* the literal or the %+, \s*, (\d+), \s*, then the end of the str.        *)
(***************************************************************************)
ReSpace == {" ", "\t", "\n"}

\* re.I on the letters of the literal
Lower(c) ==
    CASE c = "W" -> "w" [] c = "O" -> "o" [] c = "R" -> "r" [] c = "K" -> "k"
      [] c = "S" -> "s" [] c = "T" -> "t" [] c = "E" -> "e" [] c = "A" -> "a"
      [] c = "M" -> "m" [] c = "Y" -> "y" [] c = "U" -> "u" [] c = "C" -> "c"
      [] c = "I" -> "i" [] c = "V" -> "v" [] OTHER -> c
LowerStr(s) == [i \in 1..Len(s) |-> Lower(s[i])]

RECURSIVE SkipSpace(_)
SkipSpace(s) == IF s # <<>> /\ Head(s) \in ReSpace THEN SkipSpace(Tail(s)) ELSE s

RECURSIVE SkipPct(_)
SkipPct(s) == IF s # <<>> /\ Head(s) = "%" THEN SkipPct(Tail(s)) ELSE s

RECURSIVE LeadDigits(_)
LeadDigits(s) ==
    IF s # <<>> /\ Head(s) \in Digits THEN <<Head(s)>> \o LeadDigits(Tail(s))
    ELSE <<>>

DigitVal(c) ==
    CASE c = "0" -> 0 [] c = "1" -> 1 [] c = "2" -> 2 [] c = "3" -> 3
      [] c = "4" -> 4 [] c = "5" -> 5 [] c = "6" -> 6 [] c = "7" -> 7
      [] c = "8" -> 8 [] c = "9" -> 9

\* int() of a str of digits
RECURSIVE ToInt(_)
ToInt(ds) ==
    IF ds = <<>> THEN 0
    ELSE 10 * ToInt(SubSeq(ds, 1, Len(ds) - 1)) + DigitVal(ds[Len(ds)])

\* the tail \s*(\d+)\s*$ of both patterns: <<TRUE, int(group 1)>> or <<FALSE, 0>>
IndexTail(s) ==
    LET t == SkipSpace(s)
        ds == LeadDigits(t)
        rest == SkipSpace(SubSeq(t, Len(ds) + 1, Len(t)))
    IN  IF ds # <<>> /\ rest = <<>> THEN <<TRUE, ToInt(ds)>> ELSE <<FALSE, 0>>

WsWord == <<"w", "o", "r", "k", "s", "t", "r", "e", "a", "m">>

\* WS_NAME_RE.match(c)
WS_NAME_RE(c) ==
    LET t == SkipSpace(c) IN
    IF Len(t) >= Len(WsWord) /\ LowerStr(SubSeq(t, 1, Len(WsWord))) = WsWord
    THEN IndexTail(SubSeq(t, Len(WsWord) + 1, Len(t)))
    ELSE <<FALSE, 0>>

\* PCT_NAME_RE.match(c)
PCT_NAME_RE(c) ==
    LET t == SkipSpace(c)
        u == SkipPct(t)
    IN  IF Len(u) < Len(t) THEN IndexTail(u) ELSE <<FALSE, 0>>

\* d[k] = v on a dict held as a function
DictPut(d, k, v) == [x \in (DOMAIN d) \cup {k} |-> IF x = k THEN v ELSE d[x]]
EmptyDict == [x \in {} |-> <<>>]

\* the loop of lines 52-58: the dicts ws_cols and pct_cols after the columns
\* from the i-th on are scanned
RECURSIVE ScanCols(_, _, _, _)
ScanCols(cs, i, ws, pct) ==
    IF i > Len(cs) THEN [ws_cols |-> ws, pct_cols |-> pct]
    ELSE LET m1 == WS_NAME_RE(cs[i])
             m2 == PCT_NAME_RE(cs[i])
         IN  IF m1[1] THEN ScanCols(cs, i + 1, DictPut(ws, m1[2], cs[i]), pct)
             ELSE IF m2[1]
                  THEN ScanCols(cs, i + 1, ws, DictPut(pct, m2[2], cs[i]))
                  ELSE ScanCols(cs, i + 1, ws, pct)

\* sorted() of a set of ints
RECURSIVE sorted(_)
sorted(S) ==
    IF S = {} THEN <<>>
    ELSE LET m == CHOOSE x \in S : \A y \in S : x <= y
         IN  <<m>> \o sorted(S \ {m})

\* the keys in a wrong order (descending)
RECURSIVE unsorted(_)
unsorted(S) ==
    IF S = {} THEN <<>>
    ELSE LET m == CHOOSE x \in S : \A y \in S : x >= y
         IN  <<m>> \o unsorted(S \ {m})

PairKeys_unsorted(d) == unsorted((DOMAIN d.ws_cols) \cap (DOMAIN d.pct_cols))
PairKeys(d) == sorted((DOMAIN d.ws_cols) \cap (DOMAIN d.pct_cols))

find_workstream_pairs(cs) ==
    LET d == ScanCols(cs, 1, EmptyDict, EmptyDict)
        ks == PairKeys(d)
    IN  [k \in 1..Len(ks) |-> <<d.ws_cols[ks[k]], d.pct_cols[ks[k]]>>]

(***************************************************************************)
(* Inputs of find_workstream_pairs: every list of at most MaxCols names of *)
(* the pool, and the list of the documentation's example.                  *)
(***************************************************************************)
Workstream == <<"W", "o", "r", "k", "s", "t", "r", "e", "a", "m">>
WORKSTREAM == <<"W", "O", "R", "K", "S", "T", "R", "E", "A", "M">>
Notes == <<"N", "o", "t", "e", "s">>

ColWs1 == Workstream \o <<" ", "1">>
ColPct1 == <<"%", " ", "1">>
ColWs3 == Workstream \o <<" ", "3">>
ColPct3 == <<"%", "3">>

ColumnPool ==
    {ColWs1, ColPct1, ColWs3, ColPct3, Notes,
     WORKSTREAM \o <<"0", "1">>,            \* "WORKSTREAM01"
     <<"%", "%", "1", " ">>,                \* "%%1 "
     Workstream,                            \* no index
     <<"%", " ", "1", "x">>,                \* "% 1x"
     Workstream \o <<" ", "1", "0">>,       \* "Workstream 10"
     <<"%", "1", "0">>}                     \* "%10"

ExampleCols == <<ColWs1, ColPct1, ColWs3, ColPct3, Notes>>

PairInputs ==
    UNION {[1..n -> ColumnPool] : n \in 0..MaxCols} \cup {ExampleCols}

InitPairs ==
    /\ cols \in PairInputs
    /\ pairs = [called |-> FALSE, val |-> <<>>]
    /\ IdleParse
    /\ IdleLoad

\* one call of find_workstream_pairs
FindWorkstreamPairs ==
    /\ ~pairs.called
    /\ pairs' = [called |-> TRUE, val |-> find_workstream_pairs(cols)]
    /\ UNCHANGED <<cols, parseVars, loadVars, storeVars>>

SpecPairs == InitPairs /\ [][FindWorkstreamPairs]_vars

(***************************************************************************)
(* Claims about find_workstream_pairs, checked under SpecPairs.            *)
(***************************************************************************)
WsIndices(cs) == {WS_NAME_RE(cs[i])[2] : i \in {j \in 1..Len(cs) : WS_NAME_RE(cs[j])[1]}}
PctIndices(cs) ==
    {PCT_NAME_RE(cs[i])[2] : i \in {j \in 1..Len(cs) : PCT_NAME_RE(cs[j])[1]}}

\* the index of a returned pair, read off its name column
PairIndex(pr) == WS_NAME_RE(pr[1])[2]

\* C9: one pair per index N that both a 'Workstream N' and a '%N' column
\* match, in strictly ascending order of N; an index matched on one side only
\* gives no pair; the two columns of a pair carry the same index and are
\* columns of the input; the documentation's example gives its two pairs.
C9_PairsByIndex ==
    pairs.called =>
        LET ps == pairs.val
            both == WsIndices(cols) \cap PctIndices(cols)
        IN  /\ Len(ps) = Cardinality(both)
            /\ {PairIndex(ps[k]) : k \in 1..Len(ps)} = both
            /\ \A k \in 1..Len(ps) :
                  /\ WS_NAME_RE(ps[k][1])[1]
                  /\ PCT_NAME_RE(ps[k][2])[1]
                  /\ PCT_NAME_RE(ps[k][2])[2] = PairIndex(ps[k])
                  /\ \E i \in 1..Len(cols) : cols[i] = ps[k][1]
                  /\ \E i \in 1..Len(cols) : cols[i] = ps[k][2]
            /\ \A k \in 1..(Len(ps) - 1) : PairIndex(ps[k]) < PairIndex(ps[k + 1])
            /\ cols = ExampleCols => ps = <<<<ColWs1, ColPct1>>, <<ColWs3, ColPct3>>>>

\* two pairs whose columns come in the input with the greater index first
C9_Witness ==
    /\ pairs.called
    /\ Len(pairs.val) = 2
    /\ PairIndex(pairs.val[1]) = 3
    /\ PairIndex(pairs.val[2]) = 10
    /\ WS_NAME_RE(cols[1]) = <<TRUE, 10>>

(***************************************************************************)
(* DataFrames.  A frame is [columns, rows]: the column names in order and  *)
(* the rows in order, each row holding one Python value per column.        *)
(***************************************************************************)
NRows(d) == Len(d.rows)
NCols(d) == Len(d.columns)
ColPositions(d, name) == {i \in 1..NCols(d) : d.columns[i] = name}
\* `name in df.columns`
HasCol(d, name) == ColPositions(d, name) # {}
\* df.columns.get_loc(name), the name held by one column
ColIdx(d, name) == CHOOSE i \in ColPositions(d, name) : TRUE
\* df[name] as the list of its values
Column(d, name) ==
    LET c == ColIdx(d, name) IN [r \in 1..NRows(d) |-> d.rows[r][c]]

\* df[name] = vals: every column of that name is overwritten, a new column
\* is appended when there is none
SetCol(d, name, vals) ==
    IF HasCol(d, name)
    THEN [d EXCEPT !.rows =
            [r \in 1..NRows(d) |->
                [c \in 1..NCols(d) |->
                    IF d.columns[c] = name THEN vals[r] ELSE d.rows[r][c]]]]
    ELSE [columns |-> Append(d.columns, name),
          rows |-> [r \in 1..NRows(d) |-> Append(d.rows[r], vals[r])]]

\* df[name] = scalar
SetConst(d, name, v) == SetCol(d, name, [r \in 1..NRows(d) |-> v])

\* df.rename(columns={old: new})
Rename(d, old, new) ==
    [d EXCEPT !.columns =
        [c \in 1..NCols(d) |-> IF d.columns[c] = old THEN new ELSE d.columns[c]]]

DigitStr(k) ==
    CASE k = 0 -> "0" [] k = 1 -> "1" [] k = 2 -> "2" [] k = 3 -> "3"
      [] k = 4 -> "4" [] k = 5 -> "5" [] k = 6 -> "6" [] k = 7 -> "7"
      [] k = 8 -> "8" [] k = 9 -> "9"

\* the names pd.read_csv gives the columns of a header line: "Unnamed: i"
\* for an empty cell, "x.k" for the k-th repeat of x
MangledHeader(line) ==
    LET base == [c \in 1..Len(line) |->
                    IF line[c] = <<>>
                    THEN <<"Unnamed", ":", " ", DigitStr(c - 1)>>
                    ELSE line[c]]
        seen(c) == Cardinality({b \in 1..(c - 1) : base[b] = base[c]})
    IN  [c \in 1..Len(line) |->
            IF seen(c) = 0 THEN base[c]
            ELSE base[c] \o <<".", DigitStr(seen(c))>>]

\* pd.read_csv(path, header=h, dtype=str, keep_default_na=False) of a file
\* of more than h lines: line h names the columns, the later lines are rows
read_csv(f, h) ==
    [columns |-> MangledHeader(f[h + 1]),
     rows |-> [r \in 1..(Len(f) - h - 1) |->
                  [c \in 1..Len(f[h + 1]) |-> PyStr(f[r + h + 1][c])]]]

(***************************************************************************)
(* pd.to_numeric(..., errors="coerce") on one value.  Floats are held in   *)
(* hundredths; the numerals understood are [-]digits[.digits] with at most *)
(* two decimals, anything else is NaN.                                     *)
(***************************************************************************)
AllDigits(s) == \A i \in 1..Len(s) : s[i] \in Digits

Hundredths(frac) ==
    IF Len(frac) = 0 THEN 0
    ELSE IF Len(frac) = 1 THEN 10 * ToInt(frac)
    ELSE ToInt(frac)

UnsignedNumeral(u) ==
    LET ip == LeadDigits(u)
        after == SubSeq(u, Len(ip) + 1, Len(u))
    IN  IF after = <<>>
        THEN IF ip # <<>> THEN Float(100 * ToInt(ip)) ELSE NaN
        ELSE IF /\ Head(after) = "."
                /\ AllDigits(Tail(after))
                /\ Len(after) <= 3
                /\ (ip # <<>> \/ Len(after) > 1)
             THEN Float(100 * ToInt(ip) + Hundredths(Tail(after)))
             ELSE NaN

str_to_numeric(s) ==
    LET t == strip(s) IN
    IF t # <<>> /\ Head(t) = "-"
    THEN LET u == UnsignedNumeral(Tail(t))
         IN  IF u.tag = "float" THEN Float(0 - u.n) ELSE NaN
    ELSE UnsignedNumeral(t)

to_numeric(v) ==
    CASE v.tag = "str" -> str_to_numeric(v.s)
      [] v.tag = "float" -> v
      [] v.tag = "bool" -> Float(100 * v.n)
      [] OTHER -> NaN

\* Series.fillna for one value
fillna(v, w) == IF v.tag = "nan" \/ v.tag = "NoneType" THEN w ELSE v

(***************************************************************************)
(* The literals of etl.py.                                                 *)
(***************************************************************************)
SupLabel == <<"Supervisor", " ", "or", " ", "Hiring", " ", "Manager">>
ResLabel == <<"Resource", " ", "or", " ", "Rec/Offer">>
TypeLabel == <<"Type">>
L3Label == <<"L3", " ", "Org">>
VpLabel == <<"VP", " ", "Org">>
DirLabel == <<"Director", " ", "Org">>
TotLabel == <<"Total", " ", "Workstream", " ", "Allocation", " ", "%">>
StatusLabel == <<"Workstream", " ", "Status", " ", "Active">>

SENTINELS == {SupLabel, ResLabel, L3Label}

\* rename_map of load_latest_csv, in the order of its items
rename_map ==
    << <<SupLabel, <<"supervisor">> >>,
       <<ResLabel, <<"resource_raw">> >>,
       <<TypeLabel, <<"type">> >>,
       <<L3Label, <<"l3_org">> >>,
       <<VpLabel, <<"vp_org">> >>,
       <<DirLabel, <<"director_org">> >>,
       <<TotLabel, <<"total_workstream_allocation_pct">> >> >>

Self == <<"Self">>
Unassigned == <<"Unassigned">>

(***************************************************************************)
(* read_with_embedded_header (etl.py 25-46).                               *)
(***************************************************************************)
\* line 37: the business header replaces the technical one
UsesBusinessHeader_nonempty(b) == b # <<>>
UsesBusinessHeader(b) == b # <<>> /\ strip(b) # <<>> /\ strip(b) # <<"n", "a", "n">>

read_with_embedded_header(f) ==
    LET d == read_csv(f, 0) IN
    IF NRows(d) > 0
    THEN [columns |->
              [c \in 1..NCols(d) |->
                  IF UsesBusinessHeader(d.rows[1][c].s)
                  THEN strip(d.rows[1][c].s)
                  ELSE d.columns[c]],
          rows |-> Tail(d.rows)]
    ELSE d

(***************************************************************************)
(* load_latest_csv (etl.py 111-168), step by step.                         *)
(***************************************************************************)
\* line 129: df[v] = ""
synthesize_column_skipped(d, name) == d
synthesize_column(d, name) == SetConst(d, name, PyStr(<<>>))

\* lines 125-129: the loop over rename_map from its i-th item on
RECURSIVE rename_columns_from(_, _, _)
rename_columns_from(d, m, i) ==
    IF i > Len(m) THEN d
    ELSE IF HasCol(d, m[i][1])
         THEN rename_columns_from(Rename(d, m[i][1], m[i][2]), m, i + 1)
         ELSE rename_columns_from(synthesize_column(d, m[i][2]), m, i + 1)

rename_columns(d) == rename_columns_from(d, rename_map, 1)

\* lines 132-133
parse_resources(d) ==
    LET parsed_col == [r \in 1..NRows(d) |->
                          parse_employee(Column(d, <<"resource_raw">>)[r])]
        d1 == SetCol(d, <<"employee_id">>, [r \in 1..NRows(d) |-> parsed_col[r][1]])
        d2 == SetCol(d1, <<"resource_name">>, [r \in 1..NRows(d) |-> parsed_col[r][2]])
    IN  SetCol(d2, <<"resource_title">>, [r \in 1..NRows(d) |-> parsed_col[r][3]])

\* line 146: the row is a supervisor header row
IsSupervisorRow_stripped(v) == strip(v.s) # <<>>
IsSupervisorRow(v) == v.s # <<>>

\* lines 152-155: the supervisor of a direct report row
report_supervisor_nodefault(cur) == cur
report_supervisor(cur) == IF cur.tag # "NoneType" THEN cur ELSE PyStr(Unassigned)

\* lines 147-149: what the supervisor cell of a supervisor row becomes
header_mark_own(v) == v
header_mark(v) == PyStr(Self)

\* lines 137-155: the loop from row idx on; sup is the supervisor column
\* written so far, cur is current_supervisor
RECURSIVE reconstruct_from(_, _, _)
reconstruct_from(sup, cur, idx) ==
    IF idx > Len(sup) THEN sup
    ELSE IF IsSupervisorRow(sup[idx])
         THEN reconstruct_from([sup EXCEPT ![idx] = header_mark(sup[idx])],
                               sup[idx], idx + 1)
         ELSE reconstruct_from([sup EXCEPT ![idx] = report_supervisor(cur)],
                               cur, idx + 1)

reconstruct_hierarchy(d) ==
    IF HasCol(d, <<"supervisor">>)
    THEN SetCol(d, <<"supervisor">>,
                reconstruct_from(Column(d, <<"supervisor">>), PyNone, 1))
    ELSE d

(***************************************************************************)
(* compute_total_allocation (etl.py 76-96).                                *)
(***************************************************************************)
ScaleThresholdPct == 85

\* line 87: col.dropna().between(0, 1).mean() > 0.85 (NaN for an empty
\* column, which is not greater)
MostlyFractional_atleast(col) ==
    LET present == {r \in 1..Len(col) : col[r].tag = "float"}
        inside == {r \in present : 0 <= col[r].n /\ col[r].n <= 100}
    IN  /\ present # {}
        /\ 100 * Cardinality(inside) >= ScaleThresholdPct * Cardinality(present)
MostlyFractional(col) ==
    LET present == {r \in 1..Len(col) : col[r].tag = "float"}
        inside == {r \in present : 0 <= col[r].n /\ col[r].n <= 100}
    IN  /\ present # {}
        /\ 100 * Cardinality(inside) > ScaleThresholdPct * Cardinality(present)

\* line 88: col * 100.0
Times100(col) ==
    [r \in 1..Len(col) |-> IF col[r].tag = "float" THEN Float(100 * col[r].n) ELSE NaN]

\* lines 86-88: one percent column, coerced and scaled
scaled_column(d, pct_col) ==
    LET raw_col == Column(d, pct_col)
        col == [r \in 1..NRows(d) |-> to_numeric(raw_col[r])]
    IN  IF MostlyFractional(col) THEN Times100(col) ELSE col

\* comp + col, with no fill value
add_nofill(a, b) ==
    IF a.tag = "nan" \/ b.tag = "nan" THEN NaN ELSE Float(a.n + b.n)
\* comp.add(col, fill_value=0) for one row
add_fill0(a, b) ==
    IF a.tag = "nan" /\ b.tag = "nan" THEN NaN
    ELSE Float((IF a.tag = "nan" THEN 0 ELSE a.n) + (IF b.tag = "nan" THEN 0 ELSE b.n))

\* lines 84-89: comp after the pairs from the i-th on are added
RECURSIVE sum_pairs_from(_, _, _, _)
sum_pairs_from(d, ps, i, comp) ==
    IF i > Len(ps) THEN comp
    ELSE LET col == scaled_column(d, ps[i][2]) IN
         sum_pairs_from(d, ps, i + 1,
            IF i = 1 THEN col
            ELSE [r \in 1..NRows(d) |-> add_fill0(comp[r], col[r])])

\* lines 92-95: the official total where it is a number, else the computed
total_with_official(d, computed) ==
    IF HasCol(d, TotLabel)
    THEN [r \in 1..NRows(d) |->
             fillna(to_numeric(Column(d, TotLabel)[r]), computed[r])]
    ELSE computed

compute_total_allocation(d) ==
    LET ps == find_workstream_pairs(d.columns) IN
    IF ps = <<>>
    THEN SetCol(SetConst(d, <<"computed_total_pct">>, Float(0)),
                <<"total_allocation_pct">>,
                IF HasCol(d, <<"total_workstream_allocation_pct">>)
                THEN Column(d, <<"total_workstream_allocation_pct">>)
                ELSE [r \in 1..NRows(d) |-> PyNone])
    ELSE LET comp == sum_pairs_from(d, ps, 1, <<>>)
             computed == [r \in 1..NRows(d) |-> fillna(comp[r], Float(0))]
             d1 == SetCol(d, <<"computed_total_pct">>, computed)
         IN  SetCol(d1, <<"total_allocation_pct">>, total_with_official(d1, computed))

(***************************************************************************)
(* detect_workstream1_completion (etl.py 98-109).                          *)
(***************************************************************************)
Affirmative ==
    {<<"y">>, <<"y", "e", "s">>, <<"t", "r", "u", "e">>, <<"1">>,
     <<"a", "c", "t", "i", "v", "e">>}

\* lines 103-107: the loop stops at the first column of the name
last_position(at) == CHOOSE c \in at : \A c2 \in at : c >= c2
first_position(at) == CHOOSE c \in at : \A c2 \in at : c <= c2

detect_workstream1_completion(d) ==
    LET d1 == SetConst(d, <<"workstream1_completed">>, Bool(FALSE))
        at == ColPositions(d1, StatusLabel)
    IN  IF at = {} THEN d1
        ELSE LET i == first_position(at)
             IN  SetCol(d1, <<"workstream1_completed">>,
                    [r \in 1..NRows(d1) |->
                        Bool(LowerStr(strip(d1.rows[r][i].s)) \in Affirmative)])

(***************************************************************************)
(* load_latest_csv, lines 161-168: the final coercion and the flags.       *)
(***************************************************************************)
Total(d) == Column(d, <<"total_allocation_pct">>)

coerce_total_nofill(d) ==
    SetCol(d, <<"total_allocation_pct">>,
           [r \in 1..NRows(d) |-> to_numeric(Total(d)[r])])
coerce_total(d) ==
    SetCol(d, <<"total_allocation_pct">>,
           [r \in 1..NRows(d) |-> fillna(to_numeric(Total(d)[r]), Float(0))])

\* the flags of a column other than the final total
allocation_flags_stale(d) ==
    LET stale == Column(d, <<"computed_total_pct">>)
        d1 == SetCol(d, <<"overallocated">>,
                     [r \in 1..NRows(d) |-> Bool(stale[r].n > 10000)])
        d2 == SetCol(d1, <<"underallocated">>,
                     [r \in 1..NRows(d) |-> Bool(stale[r].n < 10000)])
    IN  SetCol(d2, <<"unassigned">>,
               [r \in 1..NRows(d) |-> Bool(stale[r].n = 0)])
\* lines 165-167
allocation_flags(d) ==
    LET d1 == SetCol(d, <<"overallocated">>,
                     [r \in 1..NRows(d) |-> Bool(Total(d)[r].n > 10000)])
        d2 == SetCol(d1, <<"underallocated">>,
                     [r \in 1..NRows(d) |-> Bool(Total(d)[r].n < 10000)])
    IN  SetCol(d2, <<"unassigned">>,
               [r \in 1..NRows(d) |-> Bool(Total(d)[r].n = 0)])

(***************************************************************************)
(* load_latest_csv as the sequence of its steps.  pc: "start", "read",     *)
(* "mapped", "parsed", "hier", "totals", "completion", "loaded"; "raised"  *)
(* when a step raises.                                                     *)
(***************************************************************************)
IsEtl == entry \in {"load_latest_csv", "process_pet_csv", "PETDataStore"}

\* line 113; pd.read_csv raises EmptyDataError on a file with no line
EtlRead ==
    /\ IsEtl /\ pc = "start"
    /\ IF file = <<>>
       THEN pc' = "raised" /\ df' = df /\ exc' = "EmptyDataError"
       ELSE pc' = "read" /\ df' = read_with_embedded_header(file) /\ exc' = exc
    /\ UNCHANGED <<file, entry, file_format, has_business_headers,
                   header_row_idx, hierarchy_df, result, workstream_df, parseVars, pairVars, storeVars>>

\* lines 115-129
EtlRename ==
    /\ IsEtl /\ pc = "read"
    /\ pc' = "mapped"
    /\ df' = rename_columns(df)
    /\ UNCHANGED <<file, entry, file_format, has_business_headers,
                   header_row_idx, procVars, workstream_df, parseVars, pairVars, storeVars>>

\* lines 131-133; with no row pd.DataFrame([]) has no column and the
\* assignment to three columns raises ValueError
EtlParse ==
    /\ IsEtl /\ pc = "mapped"
    /\ IF NRows(df) = 0
       THEN pc' = "raised" /\ df' = df /\ exc' = "ValueError"
       ELSE pc' = "parsed" /\ df' = parse_resources(df) /\ exc' = exc
    /\ UNCHANGED <<file, entry, file_format, has_business_headers,
                   header_row_idx, hierarchy_df, result, workstream_df, parseVars, pairVars, storeVars>>

\* lines 135-155
EtlHierarchy ==
    /\ IsEtl /\ pc = "parsed"
    /\ pc' = "hier"
    /\ df' = reconstruct_hierarchy(df)
    /\ UNCHANGED <<file, entry, file_format, has_business_headers,
                   header_row_idx, procVars, workstream_df, parseVars, pairVars, storeVars>>

\* line 158
EtlTotals ==
    /\ IsEtl /\ pc = "hier"
    /\ pc' = "totals"
    /\ df' = compute_total_allocation(df)
    /\ UNCHANGED <<file, entry, file_format, has_business_headers,
                   header_row_idx, procVars, workstream_df, parseVars, pairVars, storeVars>>

\* line 159
EtlCompletion ==
    /\ IsEtl /\ pc = "totals"
    /\ pc' = "completion"
    /\ df' = detect_workstream1_completion(df)
    /\ UNCHANGED <<file, entry, file_format, has_business_headers,
                   header_row_idx, procVars, workstream_df, parseVars, pairVars, storeVars>>

\* lines 161-168
EtlFlags ==
    /\ IsEtl /\ pc = "completion"
    /\ pc' = "loaded"
    /\ df' = allocation_flags(coerce_total(df))
    /\ UNCHANGED <<file, entry, file_format, has_business_headers,
                   header_row_idx, procVars, workstream_df, parseVars, pairVars, storeVars>>

LoadLatestCsv ==
    \/ EtlRead
    \/ EtlRename
    \/ EtlParse
    \/ EtlHierarchy
    \/ EtlTotals
    \/ EtlCompletion
    \/ EtlFlags

(***************************************************************************)
(* create_hierarchical_summary (etl.py 170-245).  Sums are in hundredths,  *)
(* like every float; ws1_completion_rate is in tenths.                     *)
(***************************************************************************)
bool_cols ==
    << <<"workstream1_completed">>, <<"overallocated">>, <<"underallocated">>,
       <<"unassigned">> >>

\* Series.astype(int) for one value
astype_int(v) == PyInt(v.n)

\* lines 176-178: the loop over bool_cols from its i-th item on; df itself
\* is assigned to
RECURSIVE bools_to_int_from(_, _)
bools_to_int_from(d, i) ==
    IF i > Len(bool_cols) THEN d
    ELSE bools_to_int_from(
            IF HasCol(d, bool_cols[i])
            THEN SetCol(d, bool_cols[i],
                        [r \in 1..NRows(d) |-> astype_int(Column(d, bool_cols[i])[r])])
            ELSE d,
            i + 1)

bools_to_int(d) == bools_to_int_from(d, 1)

\* the order of str: code points of the first characters of the words the
\* files hold
CodePoint(w) ==
    CASE w = "A" -> 65 [] w = "B" -> 66 [] w = "D" -> 68 [] w = "E" -> 69
      [] w = "Eng" -> 69 [] w = "Self" -> 83 [] w = "Unassigned" -> 85
      [] w = "V" -> 86 [] w = "W" -> 87
      [] w = "alice@co" -> 97 [] w = "bob@co" -> 98 [] w = " " -> 32

RECURSIVE StrLess(_, _)
StrLess(a, b) ==
    IF b = <<>> THEN FALSE
    ELSE IF a = <<>> THEN TRUE
    ELSE IF Head(a) = Head(b) THEN StrLess(Tail(a), Tail(b))
    ELSE CodePoint(Head(a)) < CodePoint(Head(b))

\* the order of the group keys, tuples of str
RECURSIVE KeyLess(_, _)
KeyLess(k1, k2) ==
    IF k1 = <<>> THEN FALSE
    ELSE IF Head(k1) = Head(k2) THEN KeyLess(Tail(k1), Tail(k2))
    ELSE StrLess(Head(k1), Head(k2))

\* df.groupby(by): the keys of the groups, sorted
GroupKeyOf(d, by, r) == [i \in 1..Len(by) |-> Column(d, by[i])[r].s]
RECURSIVE SortedKeys(_)
SortedKeys(S) ==
    IF S = {} THEN <<>>
    ELSE LET k == CHOOSE x \in S : \A y \in S \ {x} : KeyLess(x, y)
         IN  <<k>> \o SortedKeys(S \ {k})

\* the sum of vals over the rows of a group
RECURSIVE SumOver(_, _)
SumOver(vals, rows) ==
    IF rows = {} THEN 0
    ELSE LET r == CHOOSE x \in rows : TRUE
         IN  vals[r].n + SumOver(vals, rows \ {r})

\* num / den rounded to an integer, a tie to the even one (numpy's round)
RoundHalfEven(num, den) ==
    LET q == num \div den
        rem == num % den
    IN  IF 2 * rem < den THEN q
        ELSE IF 2 * rem > den THEN q + 1
        ELSE IF q % 2 = 0 THEN q ELSE q + 1

\* the parent of the rows of a group: index level pa of its key, None at
\* the top level
parent_of_top(key, pa) == IF pa = 0 THEN PyNone ELSE PyStr(key[1])
parent_of(key, pa) == IF pa = 0 THEN PyNone ELSE PyStr(key[pa])

\* a row is in the group of key k when its whole key is k
in_group_first(key, k) == key[1] = k[1]
in_group(key, k) == key = k

\* the rows of one level: .agg(...).round(2), the renamed columns, level,
\* entity and parent (by[pa], None when pa = 0), reset_index(drop=True)
LevelRows(d, level, by, pa) ==
    LET keys == SortedKeys({GroupKeyOf(d, by, r) : r \in 1..NRows(d)})
        total == Column(d, <<"total_allocation_pct">>)
    IN  [g \in 1..Len(keys) |->
            LET rows == {r \in 1..NRows(d) : in_group(GroupKeyOf(d, by, r), keys[g])}
                count == Cardinality({r \in rows : total[r].tag # "nan"})
            IN  [level |-> level,
                 entity |-> PyStr(keys[g][Len(by)]),
                 parent |-> parent_of(keys[g], pa),
                 resource_count |-> count,
                 total_allocation_sum |-> SumOver(total, rows),
                 avg_allocation |-> RoundHalfEven(SumOver(total, rows), count),
                 ws1_completed_count |-> SumOver(Column(d, <<"workstream1_completed">>), rows),
                 overallocated_count |-> SumOver(Column(d, <<"overallocated">>), rows),
                 underallocated_count |-> SumOver(Column(d, <<"underallocated">>), rows),
                 unassigned_count |-> SumOver(Column(d, <<"unassigned">>), rows)]]

\* line 243: (ws1_completed_count / resource_count * 100).round(1)
with_completion_rate(row) ==
    [level |-> row.level, entity |-> row.entity, parent |-> row.parent,
     resource_count |-> row.resource_count,
     total_allocation_sum |-> row.total_allocation_sum,
     avg_allocation |-> row.avg_allocation,
     ws1_completed_count |-> row.ws1_completed_count,
     overallocated_count |-> row.overallocated_count,
     underallocated_count |-> row.underallocated_count,
     unassigned_count |-> row.unassigned_count,
     ws1_completion_rate |->
        RoundHalfEven(1000 * row.ws1_completed_count, row.resource_count)]

L3Col == <<"l3_org">>
VpCol == <<"vp_org">>
DirCol == <<"director_org">>
SupCol == <<"supervisor">>

\* the summary of a table whose bool columns are already int
create_hierarchical_summary(d) ==
    LET summary_rows ==
            LevelRows(d, "L3 Org", <<L3Col>>, 0)
            \o LevelRows(d, "VP Org", <<L3Col, VpCol>>, 1)
            \o LevelRows(d, "Director Org", <<L3Col, VpCol, DirCol>>, 2)
            \o (IF HasCol(d, SupCol)
                THEN LevelRows(d, "Supervisor", <<L3Col, VpCol, DirCol, SupCol>>, 3)
                ELSE <<>>)
    IN  [i \in 1..Len(summary_rows) |-> with_completion_rate(summary_rows[i])]

(***************************************************************************)
(* process_pet_csv (etl.py 247-258): load_latest_csv, then the summary;    *)
(* the except clause logs and re-raises with a bare raise.  pc goes on     *)
(* from "loaded" to "summarized" and "returned", from "raised" to          *)
(* "reraised".                                                             *)
(***************************************************************************)
IsProcess == entry \in {"process_pet_csv", "PETDataStore"}

\* line 251
ProcSummary ==
    /\ IsProcess /\ pc = "loaded"
    /\ pc' = "summarized"
    /\ df' = bools_to_int(df)
    /\ hierarchy_df' = create_hierarchical_summary(bools_to_int(df))
    /\ UNCHANGED <<file, entry, file_format, has_business_headers,
                   header_row_idx, exc, result, workstream_df, parseVars, pairVars, storeVars>>

\* lines 253-254
ProcReturn ==
    /\ IsProcess /\ pc = "summarized"
    /\ pc' = "returned"
    /\ result' = [kind |-> "return", type |-> "tuple"]
    /\ UNCHANGED <<file, entry, file_format, df, has_business_headers,
                   header_row_idx, hierarchy_df, exc, workstream_df, parseVars, pairVars, storeVars>>

\* a bare raise re-raises the exception being handled
reraised_wrapped(e) == [kind |-> "raise", type |-> "ETLError"]
reraised(e) == [kind |-> "raise", type |-> e]

\* lines 256-258
ProcExcept ==
    /\ IsProcess /\ pc = "raised"
    /\ pc' = "reraised"
    /\ result' = reraised(exc)
    /\ UNCHANGED <<file, entry, file_format, df, has_business_headers,
                   header_row_idx, hierarchy_df, exc, workstream_df, parseVars, pairVars, storeVars>>

ProcessPetCsv ==
    \/ LoadLatestCsv
    \/ ProcSummary
    \/ ProcReturn
    \/ ProcExcept

(***************************************************************************)
(* load_pet_data_databricks (PET_Dashboard_Databricks.py 159-260).         *)
(***************************************************************************)
ScanRows == 10

HEADER_MAP ==
    << <<SupLabel, <<"manager">> >>,
       <<ResLabel, <<"resource_raw">> >>,
       <<TypeLabel, <<"type">> >>,
       <<L3Label, <<"l3_org">> >>,
       <<VpLabel, <<"vp_org">> >>,
       <<DirLabel, <<"director_org">> >>,
       <<TotLabel, <<"total_workstream_allocation_pct">> >> >>

Unnamed(k) == <<"Unnamed", ":", " ", DigitStr(k)>>

LEGACY_HEADER_MAP ==
    << <<Unnamed(0), <<"manager">> >>,
       <<Unnamed(1), <<"resource_raw">> >>,
       <<Unnamed(2), <<"type">> >>,
       <<Unnamed(3), <<"l3_org">> >>,
       <<Unnamed(4), <<"vp_org">> >>,
       <<Unnamed(5), <<"director_org">> >>,
       <<Unnamed(6), <<"total_workstream_allocation_pct">> >> >>

\* _likely_header_row (lines 98-101; etl.py 20-23 is the same): the cells
\* are strs, none is NaN
SentinelsIn(row_vals) ==
    SENTINELS \cap {strip(row_vals[c]) : c \in 1..Len(row_vals)}
_likely_header_row_any(row_vals) == Cardinality(SentinelsIn(row_vals)) >= 1
_likely_header_row(row_vals) == Cardinality(SentinelsIn(row_vals)) >= 2

\* lines 162-163: the lines that pd.read_csv(..., header=None, nrows=10) reads
ScannedCount(f) == IF Len(f) < ScanRows THEN Len(f) ELSE ScanRows

\* lines 169-175: the first scanned line that is likely the header, 0 if none
FirstHeaderLine(f) ==
    LET hits == {i \in 1..ScannedCount(f) : _likely_header_row(f[i])} IN
    IF hits = {} THEN 0 ELSE CHOOSE i \in hits : \A j \in hits : i <= j

\* lines 165-181: <<has_business_headers, header_row_idx>>
classify_header(f, fmt) ==
    IF fmt = "auto"
    THEN IF FirstHeaderLine(f) = 0 THEN <<FALSE, 0>>
         ELSE <<TRUE, FirstHeaderLine(f) - 1>>
    ELSE IF fmt = "new" THEN <<TRUE, 1>>
    ELSE <<FALSE, 0>>

\* lines 196-200: the loop over the rename map from its i-th item on
RECURSIVE dbx_rename_from(_, _, _)
dbx_rename_from(d, m, i) ==
    IF i > Len(m) THEN d
    ELSE IF HasCol(d, m[i][1])
         THEN dbx_rename_from(Rename(d, m[i][1], m[i][2]), m, i + 1)
         ELSE IF ~HasCol(d, m[i][2])
              THEN dbx_rename_from(SetConst(d, m[i][2], PyStr(<<>>)), m, i + 1)
              ELSE dbx_rename_from(d, m, i + 1)

\* lines 213-216: one percent column, missing as 0, scaled when all of it
\* lies in [0, 1]
dbx_scaled_column(d, pct_col) ==
    LET col == [r \in 1..NRows(d) |->
                   fillna(to_numeric(Column(d, pct_col)[r]), Float(0))]
    IN  IF /\ NRows(d) > 0
           /\ \A r \in 1..NRows(d) : col[r].n <= 100
           /\ \A r \in 1..NRows(d) : col[r].n >= 0
        THEN Times100(col) ELSE col

RECURSIVE dbx_sum_pairs_from(_, _, _, _)
dbx_sum_pairs_from(d, ps, i, acc) ==
    IF i > Len(ps) THEN acc
    ELSE LET col == dbx_scaled_column(d, ps[i][2]) IN
         dbx_sum_pairs_from(d, ps, i + 1,
            IF i = 1 THEN col
            ELSE [r \in 1..NRows(d) |-> Float(acc[r].n + col[r].n)])

\* lines 207-227
dbx_totals(d) ==
    LET ps == find_workstream_pairs(d.columns)
        d1 == IF ps # <<>>
              THEN SetCol(d, <<"computed_total_pct">>, dbx_sum_pairs_from(d, ps, 1, <<>>))
              ELSE SetConst(d, <<"computed_total_pct">>, Float(0))
        computed == Column(d1, <<"computed_total_pct">>)
        official == <<"total_workstream_allocation_pct">>
    IN  IF \/ ~HasCol(d1, official)
           \/ \A r \in 1..NRows(d1) : Column(d1, official)[r].tag \in {"nan", "NoneType"}
        THEN SetCol(d1, <<"total_allocation_pct">>, computed)
        ELSE SetCol(d1, <<"total_allocation_pct">>,
                [r \in 1..NRows(d1) |->
                    fillna(to_numeric(Column(d1, official)[r]), computed[r])])

\* lines 229-232
dbx_flags(d) ==
    LET d1 == SetCol(d, <<"overallocated">>,
                     [r \in 1..NRows(d) |-> Bool(Total(d)[r].n > 10000)])
        d2 == SetCol(d1, <<"underallocated">>,
                     [r \in 1..NRows(d) |->
                         Bool(Total(d)[r].n < 10000 /\ Total(d)[r].n > 0)])
    IN  SetCol(d2, <<"unassigned">>,
               [r \in 1..NRows(d) |-> Bool(Total(d)[r].n = 0)])

\* row.get(name, ''): the cell of the row, '' without such a column
row_get(d, r, name) == IF HasCol(d, name) THEN Column(d, name)[r] ELSE PyStr(<<>>)

\* lines 239-241: the percent of one assignment, from the number of its cell
assignment_pct_unscaled(v) == v
assignment_pct(v) == IF v.n <= 100 THEN Float(v.n * 100) ELSE v

\* line 238: the condition of one assignment
assigned(d, r, pair) ==
    LET ws == Column(d, pair[1])[r]
        pct == to_numeric(Column(d, pair[2])[r])
    IN  ws.tag \notin {"nan", "NoneType"} /\ pct.tag = "float" /\ pct.n > 0

\* lines 243-252
assignment(d, r, pair) ==
    [resource_name |-> row_get(d, r, <<"resource_name">>),
     workstream |-> Column(d, pair[1])[r],
     allocation_pct |-> assignment_pct(to_numeric(Column(d, pair[2])[r])),
     manager |-> row_get(d, r, <<"manager">>),
     type |-> row_get(d, r, <<"type">>),
     l3_org |-> row_get(d, r, <<"l3_org">>),
     vp_org |-> row_get(d, r, <<"vp_org">>),
     director_org |-> row_get(d, r, <<"director_org">>)]

\* lines 236-252: the loops over the rows from r on and, within row r, over
\* the pairs from i on
RECURSIVE workstream_data_from(_, _, _, _)
workstream_data_from(d, ps, r, i) ==
    IF r > NRows(d) THEN <<>>
    ELSE IF i > Len(ps) THEN workstream_data_from(d, ps, r + 1, 1)
    ELSE (IF assigned(d, r, ps[i]) THEN <<assignment(d, r, ps[i])>> ELSE <<>>)
             \o workstream_data_from(d, ps, r, i + 1)

(***************************************************************************)
(* load_pet_data_databricks as the sequence of its steps.  pc: "start",    *)
(* "classified", "read", "mapped", "parsed", "totals", "loaded",           *)
(* "assigned";                                                             *)
(* "failed" when a step raises, which the except clause of line 258 turns  *)
(* into the result (None, None, []).                                       *)
(***************************************************************************)
IsDbx == entry = "load_pet_data_databricks"

\* lines 162-181; pd.read_csv raises EmptyDataError on a file with no line
DbxClassify ==
    /\ IsDbx /\ pc = "start"
    /\ IF file = <<>>
       THEN /\ pc' = "failed"
            /\ UNCHANGED <<has_business_headers, header_row_idx>>
       ELSE /\ pc' = "classified"
            /\ has_business_headers' = classify_header(file, file_format)[1]
            /\ header_row_idx' = classify_header(file, file_format)[2]
    /\ UNCHANGED <<file, entry, file_format, df, procVars, workstream_df, parseVars, pairVars, storeVars>>

\* lines 182-187; a header line past the end of the file raises
DbxRead ==
    /\ IsDbx /\ pc = "classified"
    /\ LET h == IF has_business_headers /\ header_row_idx > 0
                THEN header_row_idx ELSE 0
       IN  IF Len(file) <= h
           THEN pc' = "failed" /\ df' = df
           ELSE pc' = "read" /\ df' = read_csv(file, h)
    /\ UNCHANGED <<file, entry, file_format, has_business_headers,
                   header_row_idx, procVars, workstream_df, parseVars, pairVars, storeVars>>

\* lines 189-200
DbxRename ==
    /\ IsDbx /\ pc = "read"
    /\ pc' = "mapped"
    /\ df' = dbx_rename_from(df,
                IF has_business_headers THEN HEADER_MAP ELSE LEGACY_HEADER_MAP, 1)
    /\ UNCHANGED <<file, entry, file_format, has_business_headers,
                   header_row_idx, procVars, workstream_df, parseVars, pairVars, storeVars>>

\* lines 202-205; with no row the assignment to three columns raises
DbxParse ==
    /\ IsDbx /\ pc = "mapped"
    /\ IF ~HasCol(df, <<"resource_raw">>)
       THEN pc' = "parsed" /\ df' = df
       ELSE IF NRows(df) = 0
            THEN pc' = "failed" /\ df' = df
            ELSE pc' = "parsed" /\ df' = parse_resources(df)
    /\ UNCHANGED <<file, entry, file_format, has_business_headers,
                   header_row_idx, procVars, workstream_df, parseVars, pairVars, storeVars>>

\* lines 207-227
DbxTotals ==
    /\ IsDbx /\ pc = "parsed"
    /\ pc' = "totals"
    /\ df' = dbx_totals(df)
    /\ UNCHANGED <<file, entry, file_format, has_business_headers,
                   header_row_idx, procVars, workstream_df, parseVars, pairVars, storeVars>>

\* lines 229-232
DbxFlags ==
    /\ IsDbx /\ pc = "totals"
    /\ pc' = "loaded"
    /\ df' = dbx_flags(df)
    /\ UNCHANGED <<file, entry, file_format, has_business_headers,
                   header_row_idx, procVars, workstream_df, parseVars, pairVars, storeVars>>

\* lines 234-256; pairs is the list of line 207, and the columns added since
\* are no workstream or percent column
DbxAssign ==
    /\ IsDbx /\ pc = "loaded"
    /\ pc' = "assigned"
    /\ workstream_df' = workstream_data_from(df, find_workstream_pairs(df.columns), 1, 1)
    /\ UNCHANGED <<file, entry, file_format, df, has_business_headers,
                   header_row_idx, procVars, parseVars, pairVars, storeVars>>

LoadPetDataDatabricks ==
    \/ DbxAssign
    \/ DbxClassify
    \/ DbxRead
    \/ DbxRename
    \/ DbxParse
    \/ DbxTotals
    \/ DbxFlags

(***************************************************************************)
(* The files the loaders are run on.  A layout gives the header line, the  *)
(* business header line when the file has one, and what each column holds. *)
(***************************************************************************)
Alice == <<"alice@co">>
Bob == <<"bob@co">>
ResCell == <<"7", ":", " ", "R", " ", "-", " ", "J">>

TwoRow ==
    [head |-> <<<<"c", "0">>, <<"c", "1">>, <<"c", "2">>, ColWs1, ColPct1, <<"c", "5">>>>,
     biz |-> <<<<SupLabel, ResLabel, L3Label, <<>>, <<>>, TotLabel>>>>,
     kinds |-> <<"sup", "res", "l3", "ws", "pct", "tot">>]
TwoRowNoTotal ==
    [head |-> <<<<"c", "0">>, <<"c", "1">>, <<"c", "2">>, ColWs1, ColPct1>>,
     biz |-> <<<<SupLabel, ResLabel, L3Label, <<>>, <<>>>>>>,
     kinds |-> <<"sup", "res", "l3", "ws", "pct">>]
TwoRowNoPairs ==
    [head |-> <<<<"c", "0">>, <<"c", "1">>, <<"c", "2">>, <<"c", "3">>>>,
     biz |-> <<<<SupLabel, ResLabel, L3Label, TotLabel>>>>,
     kinds |-> <<"sup", "res", "l3", "tot">>]
OneRow ==
    [head |-> <<SupLabel, ResLabel, L3Label, ColWs1, ColPct1, TotLabel>>,
     biz |-> <<>>,
     kinds |-> <<"sup", "res", "l3", "ws", "pct", "tot">>]
Legacy ==
    [head |-> <<<<>>, <<>>, <<>>, ColWs1, ColPct1>>,
     biz |-> <<>>,
     kinds |-> <<"sup", "res", "l3", "ws", "pct">>]

SupCells == {<<>>, Alice, Bob, <<" ">>}
PctCells == {<<>>, <<"0">>, <<"0", ".", "5">>, <<"1", "2", "0">>}
TotCells == {<<>>, <<"0">>, <<"1", "0", "0">>, <<"1", "5", "0">>}
DefaultPct == <<"5", "0">>
DefaultTot == <<"8", "0">>

Cell(kind, sup, pct, tot) ==
    CASE kind = "sup" -> sup
      [] kind = "res" -> ResCell
      [] kind = "l3" -> <<"Eng">>
      [] kind = "ws" -> <<"Alpha">>
      [] kind = "pct" -> pct
      [] kind = "tot" -> tot

\* the file of a layout and of the supervisor, percent and total cells of
\* its data rows
FileOf(lay, sups, pcts, tots) ==
    <<lay.head>> \o lay.biz \o
        [r \in 1..Len(sups) |->
            [c \in 1..Len(lay.kinds) |-> Cell(lay.kinds[c], sups[r], pcts[r], tots[r])]]

\* the rows of the documentation's example of the hierarchy reconstruction
ExampleSups == <<Alice, <<>>, <<>>, Bob, <<>>>>
ExampleHierarchyFile ==
    FileOf(TwoRow, ExampleSups, [r \in 1..5 |-> DefaultPct], [r \in 1..5 |-> DefaultTot])

\* a file whose supervisor cells vary
IsHierarchyFile(f) ==
    \E lay \in {TwoRow, OneRow}, n \in 0..MaxRows :
        \E sups \in [1..n -> SupCells] :
            f = FileOf(lay, sups, [r \in 1..n |-> DefaultPct],
                       [r \in 1..n |-> DefaultTot])

\* a file whose percent and total cells vary
IsAllocationFile(f) ==
    \E lay \in {TwoRow, TwoRowNoTotal, TwoRowNoPairs, OneRow, Legacy},
       n \in 0..MaxAllocRows :
        \E pcts \in [1..n -> PctCells], tots \in [1..n -> TotCells] :
            f = FileOf(lay, [r \in 1..n |-> IF r = 1 THEN Alice ELSE <<>>],
                       pcts, tots)

\* a loader is called
LoaderStarts(entries) ==
    /\ entry \in entries
    /\ file_format = "auto"
    /\ pc = "start"
    /\ df = EmptyFrame
    /\ has_business_headers = FALSE
    /\ header_row_idx = 0
    /\ IdleProc
    /\ IdleParse
    /\ IdlePairs

\* both loaders on the files whose percent and total cells vary
Init ==
    /\ IsAllocationFile(file) \/ file = <<>>
    /\ LoaderStarts({"load_latest_csv", "load_pet_data_databricks"})

\* load_latest_csv on the files whose supervisor cells vary
InitHier ==
    /\ IsHierarchyFile(file) \/ file = <<>> \/ file = ExampleHierarchyFile
    /\ LoaderStarts({"load_latest_csv"})

Next == LoadLatestCsv \/ LoadPetDataDatabricks

SpecHier == InitHier /\ [][LoadLatestCsv]_vars

Spec == Init /\ [][Next]_vars

(***************************************************************************)
(* Claims about load_latest_csv and load_pet_data_databricks.              *)
(***************************************************************************)
\* the table after the column mapping, from the file
Mapped == rename_columns(read_with_embedded_header(file))
\* the supervisor cells before the reconstruction
OrigSup == Column(Mapped, <<"supervisor">>)
NewSup == Column(df, <<"supervisor">>)

AfterHierarchy == IsEtl /\ pc \in {"hier", "totals", "completion", "loaded"}

\* C1: after the hierarchy reconstruction of load_latest_csv every row's
\* supervisor cell is a non-empty str, whatever the mix of empty and
\* non-empty cells in the input.
C1_SupervisorNeverEmpty ==
    AfterHierarchy =>
        \A r \in 1..NRows(df) : NewSup[r].tag = "str" /\ NewSup[r].s # <<>>

\* a table with a report before any supervisor, a supervisor and its report
C1_Witness ==
    /\ IsEtl /\ pc = "hier"
    /\ NRows(df) >= 3
    /\ OrigSup[1].s = <<>> /\ NewSup[1].s = Unassigned
    /\ OrigSup[2].s # <<>> /\ NewSup[2].s = Self
    /\ OrigSup[3].s = <<>> /\ NewSup[3] = OrigSup[2]

\* the nearest row before r whose supervisor cell is not empty, 0 if none
NearestSupervisorRow(orig, r) ==
    LET before == {j \in 1..(r - 1) : orig[j].s # <<>>} IN
    IF before = {} THEN 0 ELSE CHOOSE j \in before : \A k \in before : k <= j

\* C2: the reconstruction rewrites a non-empty supervisor cell to "Self" and
\* gives a row with an empty cell the nearest preceding non-empty cell, or
\* "Unassigned" when none precedes; [alice@co, "", "", bob@co, ""] becomes
\* [Self, alice@co, alice@co, Self, bob@co].
C2_NearestPrecedingSupervisor ==
    AfterHierarchy =>
        /\ NRows(df) = Len(OrigSup)
        /\ \A r \in 1..NRows(df) :
              LET j == NearestSupervisorRow(OrigSup, r) IN
              NewSup[r] =
                  IF OrigSup[r].s # <<>> THEN PyStr(Self)
                  ELSE IF j = 0 THEN PyStr(Unassigned)
                  ELSE OrigSup[j]
        /\ file = ExampleHierarchyFile =>
              NewSup = <<PyStr(Self), PyStr(Alice), PyStr(Alice), PyStr(Self), PyStr(Bob)>>

C2_Witness ==
    /\ IsEtl /\ pc = "hier"
    /\ file = ExampleHierarchyFile
    /\ NewSup = <<PyStr(Self), PyStr(Alice), PyStr(Alice), PyStr(Self), PyStr(Bob)>>

Flag(d, name, r) == Column(d, name)[r].n = 1
FlagsSet(d, r) ==
    {name \in {<<"overallocated">>, <<"underallocated">>, <<"unassigned">>} :
        Flag(d, name, r)}

\* C3: in every row that load_latest_csv or load_pet_data_databricks
\* outputs, at most one of overallocated, underallocated, unassigned is true.
C3_FlagsMutuallyExclusive ==
    pc = "loaded" => \A r \in 1..NRows(df) : Cardinality(FlagsSet(df, r)) <= 1

\* C4: in load_latest_csv, with a workstream pair and an official
\* 'Total Workstream Allocation %' column in the source, a row's
\* total_allocation_pct is its official value when that is a number and its
\* computed_total_pct otherwise.
C4_OfficialTotalPreferred ==
    (/\ IsEtl /\ pc = "loaded"
     /\ HasCol(read_with_embedded_header(file), TotLabel)
     /\ find_workstream_pairs(Mapped.columns) # <<>>) =>
        \A r \in 1..NRows(df) :
            LET official == to_numeric(Column(Mapped, <<"total_workstream_allocation_pct">>)[r])
            IN  Total(df)[r] =
                    IF official.tag = "float" THEN official
                    ELSE Column(df, <<"computed_total_pct">>)[r]

(***************************************************************************)
(* The header classification of load_pet_data_databricks on files of up to *)
(* MaxFileRows lines of three cells, at most two of which are not plain    *)
(* data lines, with each value of file_format.                             *)
(***************************************************************************)
PlainLine == <<Alice, ResCell, <<"Eng">>>>
SpecialLines ==
    {<<SupLabel, ResLabel, <<"x">>>>,                       \* two sentinels
     <<SupLabel, ResLabel, L3Label>>,                       \* three
     <<L3Label, L3Label, <<"x">>>>,                         \* one, twice
     <<<<" ">> \o SupLabel \o <<" ">>, <<"x">>, L3Label \o <<" ">>>>,  \* two, padded
     <<SupLabel \o <<" ", "x">>, ResLabel, <<>>>>,          \* one and a near miss
     <<<<>>, <<>>, <<>>>>}                                  \* none, empty cells

IsClassifyFile(f) ==
    \E n \in 0..MaxFileRows :
        \E p \in 0..n, q \in 0..n :
            \E lp \in SpecialLines, lq \in SpecialLines :
                f = [i \in 1..n |-> IF i = p THEN lp ELSE IF i = q THEN lq ELSE PlainLine]

InitClassify ==
    /\ IsClassifyFile(file)
    /\ entry = "load_pet_data_databricks"
    /\ file_format \in {"auto", "new", "legacy"}
    /\ pc = "start"
    /\ df = EmptyFrame
    /\ has_business_headers = FALSE
    /\ header_row_idx = 0
    /\ IdleProc
    /\ IdleParse
    /\ IdlePairs

SpecClassify == InitClassify /\ [][DbxClassify]_vars

\* the sentinel labels among the trimmed cells of a line
LabelsFound(line) ==
    {l \in {SupLabel, ResLabel, L3Label} : \E c \in 1..Len(line) : strip(line[c]) = l}
\* the scanned lines (the first 10 at most) that hold two or more of them
Qualifying ==
    {i \in 1..Len(file) : i <= ScanRows /\ Cardinality(LabelsFound(file[i])) >= 2}

InsideCell(i) ==
    CASE i % 3 = 0 -> <<"0", ".", "5">> [] i % 3 = 1 -> <<"1">> [] OTHER -> <<"0">>
OutsideCell(i) == IF i % 2 = 0 THEN <<"1", "2", "0">> ELSE <<"-", "1">>

PercentColumn(n, kout, kmiss, rot) ==
    LET base == [i \in 1..n |->
                    IF i <= n - kout - kmiss THEN InsideCell(i)
                    ELSE IF i <= n - kmiss THEN OutsideCell(i)
                    ELSE <<>>]
    IN  [i \in 1..n |-> base[((i - 1 + rot) % n) + 1]]

IsScaleFile(f) ==
    \E n \in 0..MaxScaleRows, kout \in 0..MaxOutliers, kmiss \in 0..1 :
        /\ kout + kmiss <= n
        /\ \E rot \in {0, 1, n \div 2} :
              f = FileOf(TwoRowNoTotal, [r \in 1..n |-> IF r = 1 THEN Alice ELSE <<>>],
                         PercentColumn(n, kout, kmiss, rot), [r \in 1..n |-> <<>>])

InitScale ==
    /\ IsScaleFile(file)
    /\ LoaderStarts({"load_latest_csv"})

SpecScale == InitScale /\ [][LoadLatestCsv]_vars

\* the percent column of the source as numbers
PctNumbers ==
    LET cells == Column(Mapped, ColPct1) IN
    [r \in 1..Len(cells) |-> to_numeric(cells[r])]
Present(nums) == {r \in 1..Len(nums) : nums[r].tag = "float"}
Inside(nums) == {r \in Present(nums) : 0 <= nums[r].n /\ nums[r].n <= 100}
AfterTotals == IsEtl /\ pc \in {"totals", "completion", "loaded"}

\* the values of a column with the cells of rows i and j exchanged
Swapped(col, i, j) ==
    [r \in 1..Len(col) |-> IF r = i THEN col[j] ELSE IF r = j THEN col[i] ELSE col[r]]

\* C5 as stated: a percent column with at least 85% of its numeric values
\* in [0, 1], exactly 85% included, is multiplied by 100.
C5_ScaledFromEightyFive ==
    AfterTotals =>
        LET nums == PctNumbers
            computed == Column(df, <<"computed_total_pct">>)
            present == Present(nums)
        IN  (present # {} /\ 100 * Cardinality(Inside(nums)) >= 85 * Cardinality(present))
                => \A r \in present : computed[r] = Float(100 * nums[r].n)

\* C5 amended: a percent column is multiplied by 100 exactly when strictly
\* more than 85% of its non-missing numeric values lie in [0, 1] (17 of 20
\* is not enough); the decision depends on the multiset of the values only:
\* exchanging two cells of the column exchanges the two scaled values and
\* changes no other.
C5_ScaledAboveEightyFive ==
    AfterTotals =>
        LET nums == PctNumbers
            computed == Column(df, <<"computed_total_pct">>)
            present == Present(nums)
            above == 100 * Cardinality(Inside(nums)) > 85 * Cardinality(present)
            cells == Column(df, ColPct1)
            scaled == scaled_column(df, ColPct1)
        IN  /\ \A r \in 1..NRows(df) :
                  computed[r] =
                      IF r \notin present THEN Float(0)
                      ELSE IF above THEN Float(100 * nums[r].n)
                      ELSE nums[r]
            /\ pc = "totals" =>
                  \A i \in 1..(NRows(df) - 1) :
                      scaled_column(SetCol(df, ColPct1, Swapped(cells, i, i + 1)), ColPct1)
                          = Swapped(scaled, i, i + 1)

\* 17 of 20 values in [0, 1]: the column is left as it is
C5_Witness ==
    /\ IsEtl /\ pc = "totals"
    /\ LET nums == PctNumbers
           computed == Column(df, <<"computed_total_pct">>)
       IN  /\ Cardinality(Present(nums)) = 20
           /\ Cardinality(Inside(nums)) = 17
           /\ \E r \in Inside(nums) : nums[r].n = 50 /\ computed[r] = Float(50)

(***************************************************************************)
(* The column mapping of load_latest_csv on files whose business header    *)
(* cells vary: labels, a label with blanks around it, a canonical name     *)
(* already in the source, an empty cell, the same cell twice.              *)
(***************************************************************************)
HeaderCells ==
    {<<>>, SupLabel, ResLabel, TypeLabel, TotLabel, <<" ">> \o TypeLabel \o <<" ">>,
     <<"type">>, <<"supervisor">>, <<"Notes">>}
TechName(c) == <<"c", DigitStr(c)>>
DataCell(r, c) == <<"v", DigitStr(r), DigitStr(c)>>

IsMappingFile(f) ==
    \E w \in 1..MaxMapCols, n \in 0..1 :
        \E biz \in [1..w -> HeaderCells] :
            f = <<[c \in 1..w |-> TechName(c)], biz>>
                    \o [r \in 1..n |-> [c \in 1..w |-> DataCell(r, c)]]

InitMap ==
    /\ IsMappingFile(file)
    /\ LoaderStarts({"load_latest_csv"})

SpecMap == InitMap /\ [][EtlRead \/ EtlRename]_vars

\* the table before the column mapping, from the file
Source == read_with_embedded_header(file)

\* C11: after the column mapping of load_latest_csv each of the seven
\* canonical columns exists: where the source has the business label, the
\* column of that label under its canonical name, with the cells of the
\* source; otherwise a column of empty strings.
C11_CanonicalColumnsExist ==
    (IsEtl /\ pc = "mapped") =>
        LET src == Source IN
        /\ NRows(df) = NRows(src)
        /\ \A i \in 1..Len(rename_map) :
              LET label == rename_map[i][1]
                  canon == rename_map[i][2]
              IN  /\ HasCol(df, canon)
                  /\ IF HasCol(src, label)
                     THEN \A c \in ColPositions(src, label) :
                             /\ df.columns[c] = canon
                             /\ \A r \in 1..NRows(src) : df.rows[r][c] = src.rows[r][c]
                     ELSE \A c \in ColPositions(df, canon), r \in 1..NRows(df) :
                             df.rows[r][c] = PyStr(<<>>)

\* one label is in the source and renamed, another is absent and
\* synthesized, over a canonical name the source already held
C11_Witness ==
    /\ IsEtl /\ pc = "mapped"
    /\ NRows(df) = 1
    /\ HasCol(Source, TypeLabel) /\ ~HasCol(Source, SupLabel)
    /\ HasCol(Source, <<"supervisor">>)
    /\ Column(df, <<"type">>)[1] # PyStr(<<>>)
    /\ Column(df, <<"supervisor">>)[1] = PyStr(<<>>)

(***************************************************************************)
(* load_latest_csv on files with two workstream pairs whose percent cells  *)
(* vary.                                                                   *)
(***************************************************************************)
SumCells == {<<>>, <<"0", ".", "5">>, <<"0", ".", "3">>, <<"1", "2", "0">>, <<"x">>}

TwoPairFile(p1, p2) ==
    << <<TechName(0), TechName(1), ColWs1, ColPct1, ColWs3, ColPct3>>,
       <<SupLabel, ResLabel, <<>>, <<>>, <<>>, <<>>>> >>
        \o [r \in 1..Len(p1) |->
              <<(IF r = 1 THEN Alice ELSE <<>>), ResCell, <<"Alpha">>, p1[r],
                <<"Beta">>, p2[r]>>]

IsSumFile(f) ==
    \E n \in 1..MaxSumRows :
        \E p1 \in [1..n -> SumCells], p2 \in [1..n -> SumCells] :
            f = TwoPairFile(p1, p2)

InitSum ==
    /\ IsSumFile(file)
    /\ LoaderStarts({"load_latest_csv"})

SpecSum == InitSum /\ [][LoadLatestCsv]_vars

\* a percent column of the source as numbers
NumbersOf(name) ==
    LET cells == Column(Source, name) IN
    [r \in 1..Len(cells) |-> to_numeric(cells[r])]
\* what row r of a percent column adds to the sum, in hundredths
Contribution(nums, r) ==
    IF nums[r].tag # "float" THEN 0
    ELSE IF 100 * Cardinality(Inside(nums)) > 85 * Cardinality(Present(nums))
         THEN 100 * nums[r].n
         ELSE nums[r].n

\* C12: with at least one workstream pair, each row's computed_total_pct is
\* the sum over the discovered pairs of the row's percent value after the
\* column's scale decision (times 100 in a fractional column), a missing or
\* non-numeric cell adding 0; 0.5 and 0.3 in fractional columns give 80.
C12_ComputedIsScaledSum ==
    (AfterTotals /\ find_workstream_pairs(Source.columns) # <<>>) =>
        LET ps == find_workstream_pairs(Source.columns)
            n1 == NumbersOf(ps[1][2])
            n2 == NumbersOf(ps[Len(ps)][2])
            computed == Column(df, <<"computed_total_pct">>)
        IN  /\ Len(ps) <= 2
            /\ \A r \in 1..NRows(df) :
                  computed[r] =
                      Float(Contribution(n1, r)
                            + (IF Len(ps) = 2 THEN Contribution(n2, r) ELSE 0))

\* 0.5 and 0.3 in two fractional columns: 80; a non-numeric cell beside a
\* number in another row
C12_Witness ==
    /\ IsEtl /\ pc = "totals"
    /\ Len(find_workstream_pairs(Source.columns)) = 2
    /\ LET n1 == NumbersOf(ColPct1)
           n2 == NumbersOf(ColPct3)
           computed == Column(df, <<"computed_total_pct">>)
       IN  /\ Len(n1) = 2
           /\ n1[1] = Float(50) /\ n2[1] = Float(30)
           /\ computed[1] = Float(8000)
           /\ n1[2].tag = "nan" /\ n2[2] = Float(30)
           /\ computed[2] = Float(3000)

(***************************************************************************)
(* load_latest_csv on files without workstream pair, with and without the  *)
(* official total column.                                                  *)
(***************************************************************************)
OfficialCells == {<<>>, <<"0">>, <<"1", "5", "0">>, <<"4", "2", ".", "5">>, <<"x">>}

NoPairFile(with_total, tots) ==
    << (<<TechName(0), TechName(1)>> \o (IF with_total THEN <<TechName(2)>> ELSE <<>>)),
       (<<SupLabel, ResLabel>> \o (IF with_total THEN <<TotLabel>> ELSE <<>>)) >>
        \o [r \in 1..Len(tots) |->
              <<(IF r = 1 THEN Alice ELSE <<>>), ResCell>>
                  \o (IF with_total THEN <<tots[r]>> ELSE <<>>)]

IsNoPairFile(f) ==
    \E with_total \in BOOLEAN, n \in 1..MaxNoPairRows :
        \E tots \in [1..n -> OfficialCells] :
            /\ with_total \/ \A r \in 1..n : tots[r] = <<>>
            /\ f = NoPairFile(with_total, tots)

InitNoPair ==
    /\ IsNoPairFile(file)
    /\ LoaderStarts({"load_latest_csv"})

SpecNoPair == InitNoPair /\ [][LoadLatestCsv]_vars

\* the official total cells of the mapped table
Official == Column(Mapped, <<"total_workstream_allocation_pct">>)

\* C13: with no workstream pair, compute_total_allocation sets
\* computed_total_pct to 0 in every row and takes total_allocation_pct from
\* the official total column; after the final coercion of load_latest_csv a
\* numeric official value is the total and a missing, empty or non-numeric
\* one is 0; no step of it raises.
C13_NoPairsOfficialTotal ==
    (IsEtl /\ file # <<>> /\ find_workstream_pairs(Source.columns) = <<>>
           /\ NRows(Source) > 0) =>
        /\ pc # "raised"
        /\ AfterTotals =>
              LET official == Official
                  total == Total(df)
                  computed == Column(df, <<"computed_total_pct">>)
              IN  \A r \in 1..NRows(df) :
                    /\ computed[r] = Float(0)
                    /\ pc # "loaded" => total[r] = official[r]
                    /\ pc = "loaded" =>
                          total[r] = IF to_numeric(official[r]).tag = "float"
                                     THEN to_numeric(official[r])
                                     ELSE Float(0)

\* a numeric, an empty and a non-numeric official value in one table
C13_Witness ==
    /\ IsEtl /\ pc = "loaded"
    /\ find_workstream_pairs(Source.columns) = <<>>
    /\ NRows(df) = 3
    /\ Official = <<PyStr(<<"4", "2", ".", "5">>), PyStr(<<>>), PyStr(<<"x">>)>>
    /\ Total(df) = <<Float(4250), Float(0), Float(0)>>

(***************************************************************************)
(* load_latest_csv on files with two columns that may both, one or neither *)
(* be named "Workstream Status Active" by the business header row.         *)
(***************************************************************************)
StatusNames ==
    {StatusLabel, Notes, <<"workstream", " ", "status", " ", "active">>}
StatusCells ==
    {<<"Y">>, <<" ", "A", "c", "t", "i", "v", "e", " ">>, <<"T", "R", "U", "E">>,
     <<"1">>, <<"n", "o">>, <<>>}

StatusFile(name1, name2, s1, s2) ==
    << <<TechName(0), TechName(1), TechName(2), TechName(3)>>,
       <<SupLabel, ResLabel, name1, name2>> >>
        \o [r \in 1..Len(s1) |->
              <<(IF r = 1 THEN Alice ELSE <<>>), ResCell, s1[r], s2[r]>>]

IsStatusFile(f) ==
    \E name1 \in StatusNames, name2 \in StatusNames, n \in 1..MaxStatusRows :
        \E s1 \in [1..n -> StatusCells], s2 \in [1..n -> StatusCells] :
            f = StatusFile(name1, name2, s1, s2)

InitStatus ==
    /\ IsStatusFile(file)
    /\ LoaderStarts({"load_latest_csv"})

SpecStatus == InitStatus /\ [][LoadLatestCsv]_vars

Completed == Column(df, <<"workstream1_completed">>)
AfterCompletion == IsEtl /\ pc \in {"completion", "loaded"}
StatusPositions == {c \in 1..NCols(Source) : Source.columns[c] = StatusLabel}

\* C14: detect_workstream1_completion uses only the first column named
\* exactly "Workstream Status Active": workstream1_completed is true for a
\* row iff that cell, trimmed and lower-cased, is one of y, yes, true, 1,
\* active; with no such column the flag is false in every row; nothing is
\* raised.
C14_FirstStatusColumn ==
    (IsEtl /\ file # <<>> /\ NRows(Source) > 0) =>
        /\ pc # "raised"
        /\ AfterCompletion =>
              LET src == Source
                  at == StatusPositions
                  completed == Completed
              IN  \A r \in 1..NRows(df) :
                    completed[r] =
                        IF at = {} THEN Bool(FALSE)
                        ELSE LET first == CHOOSE c \in at : \A c2 \in at : c <= c2
                                 cell == LowerStr(strip(src.rows[r][first].s))
                             IN  Bool(cell \in {<<"y">>, <<"y", "e", "s">>,
                                                <<"t", "r", "u", "e">>, <<"1">>,
                                                <<"a", "c", "t", "i", "v", "e">>})

\* two columns of the name: the first says no, the second " Active "
C14_Witness ==
    /\ AfterCompletion
    /\ Cardinality(StatusPositions) = 2
    /\ Source.rows[1][3] = PyStr(<<"n", "o">>)
    /\ Source.rows[1][4] = PyStr(<<" ", "A", "c", "t", "i", "v", "e", " ">>)
    /\ Completed[1] = Bool(FALSE)

(***************************************************************************)
(* process_pet_csv on files whose organisation and supervisor cells vary:  *)
(* a VP Org under two L3 Orgs, a Director Org under two VP Orgs, a         *)
(* supervisor over rows of two Director Orgs; and on the files without     *)
(* data row, and the empty file.                                           *)
(***************************************************************************)
OrgPaths ==
    {<<<<"A">>, <<"V">>, <<"D">>>>, <<<<"A">>, <<"V">>, <<"E">>>>,
     <<<<"A">>, <<"W">>, <<"D">>>>, <<<<"B">>, <<"V">>, <<"D">>>>}
OrgSups == {<<>>, Alice}
OrgTotal(r) == IF r % 2 = 1 THEN <<"1", "5", "0">> ELSE <<>>
OrgStatus(r) == IF r % 2 = 1 THEN <<"Y">> ELSE <<"n", "o">>

OrgHead ==
    <<TechName(0), TechName(1), TechName(2), TechName(3), TechName(4),
      TechName(5), TechName(6)>>
OrgBiz == <<SupLabel, ResLabel, L3Label, VpLabel, DirLabel, TotLabel, StatusLabel>>

OrgFile(paths, sups) ==
    <<OrgHead, OrgBiz>>
        \o [r \in 1..Len(paths) |->
              <<sups[r], ResCell, paths[r][1], paths[r][2], paths[r][3],
                OrgTotal(r), OrgStatus(r)>>]

IsOrgFile(f) ==
    \E n \in 1..MaxOrgRows :
        \E paths \in [1..n -> OrgPaths], sups \in [1..n -> OrgSups] :
            f = OrgFile(paths, sups)

\* files with no data row: the technical header line alone, one with the
\* labels as its only line, the two header lines
NoRowFiles == {<<OrgHead>>, <<OrgBiz>>, <<OrgHead, OrgBiz>>}

InitProcess ==
    /\ IsOrgFile(file) \/ file \in NoRowFiles \/ file = <<>>
    /\ LoaderStarts({"process_pet_csv"})

SpecProcess == InitProcess /\ [][ProcessPetCsv]_vars

Summarized == IsProcess /\ pc \in {"summarized", "returned"}
\* the summary rows of a level
RowsAt(level) == {i \in 1..Len(hierarchy_df) : hierarchy_df[i].level = level}
\* the sum of resource_count over a set of summary rows
RECURSIVE CountSum(_)
CountSum(S) ==
    IF S = {} THEN 0
    ELSE LET i == CHOOSE x \in S : TRUE
         IN  hierarchy_df[i].resource_count + CountSum(S \ {i})

\* the rows of the child level under an entity weigh what the rows of the
\* parent level for that entity weigh
Conserved(parentLevel, childLevel) ==
    \A p \in RowsAt(parentLevel) :
        LET e == hierarchy_df[p].entity IN
        CountSum({c \in RowsAt(childLevel) : hierarchy_df[c].parent = e})
            = CountSum({q \in RowsAt(parentLevel) : hierarchy_df[q].entity = e})

\* C15: in the summary of create_hierarchical_summary, for every Director
\* Org entity D the resource_count of the Supervisor rows whose parent is D
\* sum to the resource_count of the Director Org row(s) whose entity is D;
\* the same between VP Org and Director Org rows and between L3 Org and VP
\* Org rows.
C15_CountsConserved ==
    Summarized =>
        /\ Conserved("Director Org", "Supervisor")
        /\ Conserved("VP Org", "Director Org")
        /\ Conserved("L3 Org", "VP Org")

\* a Director Org with two Supervisor rows, of one and of two resources
C15_Witness ==
    /\ Summarized
    /\ \E p \in RowsAt("Director Org") :
          /\ hierarchy_df[p].resource_count = 3
          /\ \E c1, c2 \in RowsAt("Supervisor") :
                /\ hierarchy_df[c1].parent = hierarchy_df[p].entity
                /\ hierarchy_df[c2].parent = hierarchy_df[p].entity
                /\ hierarchy_df[c1].resource_count = 1
                /\ hierarchy_df[c2].resource_count = 2

\* C16: the summary holds exactly one row per (level, entity) pair, also
\* when the same vp_org, director_org or supervisor value occurs under two
\* different ancestors: no two summary rows share both level and entity.
C16_OneRowPerLevelEntity ==
    Summarized =>
        \A i, j \in 1..Len(hierarchy_df) :
            (/\ hierarchy_df[i].level = hierarchy_df[j].level
             /\ hierarchy_df[i].entity = hierarchy_df[j].entity) => i = j

\* the file has at least the technical header line and no data row after
\* the header lines
NoDataRow == file # <<>> /\ NRows(Source) = 0

\* C17: process_pet_csv (load_latest_csv, then create_hierarchical_summary)
\* on a file with zero data rows, the technical header line alone or with
\* the business header line, does not raise and returns an empty Resource
\* table and an empty summary.
C17_ZeroRowsNoRaise ==
    (IsProcess /\ NoDataRow) =>
        /\ pc \notin {"raised", "reraised"}
        /\ pc = "returned" =>
              /\ result.kind = "return"
              /\ NRows(df) = 0
              /\ hierarchy_df = <<>>

\* C18: when a stage of process_pet_csv fails, the caller receives a
\* distinct "ETL failed" error that wraps the cause, never the bare
\* underlying exception, and never a partial result.
C18_FailureIsWrapped ==
    (IsProcess /\ pc = "reraised") =>
        /\ result.kind = "raise"
        /\ result.type = "ETLError"
        /\ result.type # exc

\* C19: read_with_embedded_header absorbs the first data row as business
\* headers only when that row holds the sentinel labels; a first data row
\* of ordinary data is kept as a data row and the column names of row 0
\* are unchanged.
C19_AbsorbsOnlyLabelRow ==
    (IsEtl /\ pc = "read" /\ Len(file) >= 2) =>
        IF _likely_header_row(file[2])
        THEN NRows(df) = Len(file) - 2
        ELSE df = read_csv(file, 0)

(***************************************************************************)
(* PETDataStore (store.py).  A file name is a list of words; a file of the *)
(* directory is [name, mtime, content], its content the lines of a CSV.    *)
(***************************************************************************)
WATCH_INTERVAL_SECONDS == 300
MAX_BACKUP_FILES == 5

CsvSuffix == ".csv"
\* re.IGNORECASE on the words of a name
WordLower(w) ==
    CASE w = "PET" -> "pet" [] w = "Resource" -> "resource"
      [] w = "Allocation" -> "allocation" [] OTHER -> w
\* data_dir.glob("*.csv")
GlobCsv(name) == name # <<>> /\ name[Len(name)] = CsvSuffix
\* re.search(WATCH_PATTERN, name, re.IGNORECASE)
WATCH_PATTERN(name) ==
    \E i \in 1..Len(name) :
        /\ i + 4 <= Len(name)
        /\ [k \in 1..5 |-> WordLower(name[i + k - 1])]
               = <<"pet", " ", "resource", " ", "allocation">>
        /\ \E j \in (i + 5)..Len(name) : WordLower(name[j]) = CsvSuffix

MatchingFiles(dir) == {f \in dir : GlobCsv(f.name) /\ WATCH_PATTERN(f.name)}

\* find_latest_file: the values it can return; among files of the same,
\* latest, mtime max() takes the first that glob yields, in no fixed order
find_latest_file(dir) ==
    IF MatchingFiles(dir) = {} THEN {None}
    ELSE {Some(f) : f \in {g \in MatchingFiles(dir) :
                              \A h \in MatchingFiles(dir) : h.mtime <= g.mtime}}

\* the fields of the store that its methods assign
StoreState ==
    [last_check_time |-> last_check_time, current_file |-> current_file,
     current_data |-> current_data, last_modified |-> last_modified]

\* should_refresh (lines 55-95) with find_latest_file returning latest:
\* [ret, st], the returned bool and the fields afterwards
\* line 64
within_interval_never(st, t) == FALSE
within_interval(st, t) == t - st.last_check_time < WATCH_INTERVAL_SECONDS

\* lines 86-88
file_changed_always(st, latest) == TRUE
file_changed(st, latest) ==
    \/ st.current_file # Some(latest.val.name)
    \/ ~st.last_modified.some
    \/ latest.val.mtime > st.last_modified.val

should_refresh(st, t, latest) ==
    IF within_interval(st, t)
    THEN [ret |-> FALSE, st |-> st]
    ELSE LET st1 == [st EXCEPT !.last_check_time = t] IN
         IF ~latest.some
         THEN IF st1.current_file.some
              THEN [ret |-> TRUE,
                    st |-> [st1 EXCEPT !.current_file = None,
                                       !.current_data = None,
                                       !.last_modified = None]]
              ELSE [ret |-> FALSE, st |-> st1]
         ELSE IF file_changed(st1, latest)
              THEN [ret |-> TRUE,
                    st |-> [st1 EXCEPT !.current_file = Some(latest.val.name),
                                       !.last_modified = Some(latest.val.mtime)]]
              ELSE [ret |-> FALSE, st |-> st1]

\* _cleanup_old_files (lines 189-214): the newest MAX_BACKUP_FILES matching
\* files stay
_cleanup_old_files(dir) ==
    IF Cardinality(MatchingFiles(dir)) <= MAX_BACKUP_FILES THEN dir
    ELSE LET keep == CHOOSE S \in SUBSET MatchingFiles(dir) :
                        /\ Cardinality(S) = MAX_BACKUP_FILES
                        /\ \A a \in S, b \in MatchingFiles(dir) \ S : a.mtime >= b.mtime
         IN  (dir \ MatchingFiles(dir)) \cup keep

\* line 118: a, b, c, d = <tuple>
unpacks_into_four(tuple) == Len(tuple) = 4

\* load_data, lines 107-114, with find_latest_file returning latest:
\* [done, ret, st], done when the method returns before line 116
load_data(st, t, force_refresh, latest) ==
    LET sr == IF force_refresh THEN [ret |-> TRUE, st |-> st]
              ELSE should_refresh(st, t, latest)
        st2 == IF ~sr.st.current_file.some /\ latest.some
               THEN [sr.st EXCEPT !.current_file = Some(latest.val.name),
                                  !.last_modified = Some(latest.val.mtime)]
               ELSE sr.st
    IN  IF ~sr.ret
        THEN [done |-> TRUE, ret |-> sr.st.current_data, st |-> sr.st]
        ELSE IF ~st2.current_file.some
             THEN [done |-> TRUE, ret |-> None, st |-> st2]
             ELSE [done |-> FALSE, ret |-> None, st |-> st2]

\* the fields of the store become those of st
Assign(st) ==
    /\ last_check_time' = st.last_check_time
    /\ current_file' = st.current_file
    /\ current_data' = st.current_data
    /\ last_modified' = st.last_modified

IsStore == entry = "PETDataStore"
\* no method of the store is running
StoreIdle == IsStore /\ pc = "idle"

\* load_data up to its return or to the call of process_pet_csv on the
\* current file (line 118); pd.read_csv of a path that is not in the
\* directory raises
LoadData(force_refresh) ==
    /\ StoreIdle
    /\ \E latest \in find_latest_file(data_dir) :
          LET r == load_data(StoreState, now, force_refresh, latest) IN
          /\ Assign(r.st)
          /\ IF r.done
             THEN /\ returned' = [method |-> "load_data", some |-> r.ret.some,
                                  val |-> r.ret.val, at |-> now,
                                  processed |-> FALSE]
                  /\ UNCHANGED <<pc, file, exc>>
             ELSE /\ returned' = NoCall
                  /\ IF \E f \in data_dir : f.name = r.st.current_file.val
                     THEN /\ pc' = "start"
                          /\ file' = (CHOOSE f \in data_dir :
                                         f.name = r.st.current_file.val).content
                          /\ exc' = exc
                     ELSE /\ pc' = "raised"
                          /\ file' = file
                          /\ exc' = "FileNotFoundError"
    /\ UNCHANGED <<data_dir, now, entry, file_format, df, has_business_headers,
                   header_row_idx, hierarchy_df, result, workstream_df, parseVars, pairVars>>

\* load_data, lines 118-129, when process_pet_csv has returned or raised
LoadDataFinish ==
    /\ IsStore /\ pc \in {"returned", "reraised"}
    /\ IF pc = "returned" /\ unpacks_into_four(<<df, hierarchy_df>>)
       THEN /\ current_data' = Some(<<df, hierarchy_df>>)
            /\ data_dir' = _cleanup_old_files(data_dir)
            /\ returned' = [method |-> "load_data", some |-> TRUE,
                            val |-> <<df, hierarchy_df>>, at |-> now,
                            processed |-> TRUE]
       ELSE /\ returned' = [method |-> "load_data", some |-> FALSE,
                            val |-> <<>>, at |-> now, processed |-> TRUE]
            /\ UNCHANGED <<current_data, data_dir>>
    /\ pc' = "idle"
    /\ file' = <<>> /\ df' = EmptyFrame /\ hierarchy_df' = <<>>
    /\ exc' = "none" /\ result' = NoResult
    /\ UNCHANGED <<now, last_check_time, current_file, last_modified, entry,
                   file_format, has_business_headers, header_row_idx,
                   workstream_df, parseVars, pairVars>>

ShouldRefresh ==
    /\ StoreIdle
    /\ \E latest \in find_latest_file(data_dir) :
          LET r == should_refresh(StoreState, now, latest) IN
          /\ Assign(r.st)
          /\ returned' = [method |-> "should_refresh", some |-> TRUE,
                          val |-> <<r.ret>>, at |-> now, processed |-> FALSE]
    /\ UNCHANGED <<data_dir, now, file, entry, file_format, pc, df,
                   has_business_headers, header_row_idx, procVars, workstream_df, parseVars,
                   pairVars>>

\* the environment: time passes
TickSeconds == 150
Tick ==
    /\ StoreIdle
    /\ now + TickSeconds <= MaxTime
    /\ now' = now + TickSeconds
    /\ UNCHANGED <<data_dir, last_check_time, current_file, current_data,
                   last_modified, returned, loadVars, parseVars, pairVars>>

\* the names and the contents of the files of the directory
NameA == <<"PET", " ", "Resource", " ", "Allocation", " ", "1", CsvSuffix>>
NameB == <<"pet", " ", "resource", " ", "allocation", " ", "2", CsvSuffix>>
NameOther == <<"notes", CsvSuffix>>
FileNames == {NameA, NameB, NameOther}
GoodContent == OrgFile(<<<<<<"A">>, <<"V">>, <<"D">>>>>>, <<Alice>>)
FileContents == {GoodContent, <<>>}

\* the environment: a file is written to the directory, or removed
WriteFile ==
    /\ StoreIdle
    /\ \E name \in FileNames, content \in FileContents :
          /\ name = NameOther => content = GoodContent
          /\ data_dir' = {f \in data_dir : f.name # name}
                             \cup {[name |-> name, mtime |-> now, content |-> content]}
    /\ UNCHANGED <<now, last_check_time, current_file, current_data,
                   last_modified, returned, loadVars, parseVars, pairVars>>

RemoveFile ==
    /\ StoreIdle
    /\ \E f \in data_dir : data_dir' = data_dir \ {f}
    /\ UNCHANGED <<now, last_check_time, current_file, current_data,
                   last_modified, returned, loadVars, parseVars, pairVars>>

StartTime == 1000

\* PETDataStore() on an empty directory (lines 22-28)
InitStore ==
    /\ entry = "PETDataStore"
    /\ file = <<>> /\ file_format = "auto" /\ pc = "idle" /\ df = EmptyFrame
    /\ has_business_headers = FALSE /\ header_row_idx = 0
    /\ hierarchy_df = <<>> /\ exc = "none" /\ result = NoResult
    /\ workstream_df = <<>>
    /\ IdleParse /\ IdlePairs
    /\ data_dir = {}
    /\ now = StartTime
    /\ last_check_time = 0
    /\ current_file = None
    /\ current_data = None
    /\ last_modified = None
    /\ returned = NoCall

NextStore ==
    \/ \E force_refresh \in BOOLEAN : LoadData(force_refresh)
    \/ ProcessPetCsv
    \/ LoadDataFinish
    \/ ShouldRefresh
    \/ Tick
    \/ WriteFile
    \/ RemoveFile

SpecStore == InitStore /\ [][NextStore]_vars

\* C20: when a matching CSV file exists and process_pet_csv completes,
\* load_data stores the processed result in current_data and returns it, a
\* value that is not None.
C20_LoadDataReturnsResult ==
    [][(LoadDataFinish /\ pc = "returned") =>
           /\ returned'.some
           /\ current_data' = Some(returned'.val)]_vars

(***************************************************************************)
(* The flags of load_latest_csv, checked under Spec.                       *)
(***************************************************************************)
\* C21: in every row load_latest_csv outputs, total_allocation_pct is a
\* number and the three flags are the threshold predicates of that final
\* value: overallocated iff it is above 100, underallocated iff it is below
\* 100, unassigned iff it is 0.
C21_FlagsOfFinalTotal ==
    (IsEtl /\ pc = "loaded") =>
        LET tot == Total(df)
            over == Column(df, <<"overallocated">>)
            under == Column(df, <<"underallocated">>)
            unas == Column(df, <<"unassigned">>)
        IN  \A r \in 1..NRows(df) :
                /\ tot[r].tag = "float"
                /\ over[r] = Bool(tot[r].n > 10000)
                /\ under[r] = Bool(tot[r].n < 10000)
                /\ unas[r] = Bool(tot[r].n = 0)

\* a row whose final total is above 100 while its computed total is below,
\* and a row whose final total is 0
C21_Witness ==
    /\ IsEtl /\ pc = "loaded" /\ NRows(df) = 2
    /\ Total(df)[1].n > 10000
    /\ Column(df, <<"computed_total_pct">>)[1].n < 10000
    /\ Flag(df, <<"overallocated">>, 1)
    /\ Total(df)[2].n = 0
    /\ Flag(df, <<"unassigned">>, 2)

(***************************************************************************)
(* read_with_embedded_header on files whose first data row varies: labels, *)
(* labels with blanks around them, blank cells, the null marker.           *)
(***************************************************************************)
NanCell == <<"n", "a", "n">>
ReaderCells ==
    {<<>>, <<" ">>, NanCell, <<" ">> \o NanCell \o <<"\t">>, SupLabel,
     <<" ">> \o TypeLabel \o <<" ">>, <<"N", "a", "N">>}

IsReaderFile(f) ==
    \E w \in 1..MaxReadCols, n \in 0..MaxReadRows :
        \E biz \in [1..w -> ReaderCells] :
            f = <<[c \in 1..w |-> TechName(c)], biz>>
                    \o [r \in 1..n |-> [c \in 1..w |-> DataCell(r, c)]]

InitReader ==
    /\ IsReaderFile(file)
    /\ LoaderStarts({"load_latest_csv"})

SpecReader == InitReader /\ [][EtlRead]_vars

\* C22: on a table with at least one data row, read_with_embedded_header
\* names each column by the trimmed cell of the first data row when that
\* cell is not blank and not 'nan', and by its technical name otherwise; it
\* removes that first row and nothing else: the columns are as many, the
\* other rows are the same, in the same order.
C22_RenamesAndDropsFirstRow ==
    (IsEtl /\ pc = "read" /\ Len(file) >= 2) =>
        LET tech == MangledHeader(file[1])
            first == file[2]
        IN  /\ NCols(df) = Len(tech)
            /\ \A c \in 1..Len(tech) :
                  df.columns[c] =
                      IF Blank(first[c]) \/ strip(first[c]) = NanCell
                      THEN tech[c]
                      ELSE strip(first[c])
            /\ NRows(df) = Len(file) - 2
            /\ \A r \in 1..NRows(df) :
                  df.rows[r] = [c \in 1..Len(tech) |-> PyStr(file[r + 2][c])]

\* a column renamed to a trimmed label, one whose cell is 'nan' between
\* blanks and one whose cell is blank keeping their names, two rows left
C22_Witness ==
    /\ IsEtl /\ pc = "read" /\ NRows(df) = 2
    /\ file[2] = << <<" ">> \o TypeLabel \o <<" ">>,
                    <<" ">> \o NanCell \o <<"\t">>, <<" ">> >>
    /\ df.columns = <<TypeLabel, TechName(2), TechName(3)>>

(***************************************************************************)
(* load_pet_data_databricks on files with one header line and two          *)
(* workstream pairs whose percent cells vary.                              *)
(***************************************************************************)
AssignCells == {<<>>, <<"0">>, <<"0", ".", "5">>, <<"1">>, <<"1", "2", "0">>}

AssignFile(p1, p2) ==
    << <<SupLabel, ResLabel, ColWs1, ColPct1, ColWs3, ColPct3>> >>
        \o [r \in 1..Len(p1) |->
              <<Alice, ResCell, <<"Alpha">>, p1[r],
                (IF r = 1 THEN <<>> ELSE <<"Beta">>), p2[r]>>]

IsAssignFile(f) ==
    \E n \in 0..MaxAssignRows :
        \E p1 \in [1..n -> AssignCells], p2 \in [1..n -> AssignCells] :
            f = AssignFile(p1, p2)

InitAssign ==
    /\ IsAssignFile(file)
    /\ LoaderStarts({"load_pet_data_databricks"})

SpecAssign == InitAssign /\ [][LoadPetDataDatabricks]_vars

\* the (row, pair) cells in the order of the loops, numbered from 1
CellNo(r, i, npairs) == (r - 1) * npairs + i
\* the number of the percent cell of row r and pair ps[i], NaN when it is
\* none
PctNumber(ps, r, i) == to_numeric(Column(df, ps[i][2])[r])

\* C23: load_pet_data_databricks emits one assignment for each (row,
\* workstream pair) whose percent cell is a number above 0, in the order of
\* the rows and pairs, and none for another cell; its allocation_pct is the
\* number of the cell times 100 when that number is at most 1 and the number
\* itself otherwise, whatever the other cells of the column hold.
C23_OneAssignmentPerPositiveCell ==
    (IsDbx /\ pc = "assigned") =>
        LET ps == find_workstream_pairs(df.columns)
            np == Len(ps)
            positive == {c \in (1..NRows(df)) \X (1..np) :
                            /\ PctNumber(ps, c[1], c[2]).tag = "float"
                            /\ PctNumber(ps, c[1], c[2]).n > 0}
            rank(c) == Cardinality({b \in positive :
                           CellNo(b[1], b[2], np) <= CellNo(c[1], c[2], np)})
        IN  /\ Len(workstream_df) = Cardinality(positive)
            /\ \A c \in positive :
                  LET x == PctNumber(ps, c[1], c[2]).n
                      a == workstream_df[rank(c)]
                  IN  /\ a.workstream = Column(df, ps[c[2]][1])[c[1]]
                      /\ a.allocation_pct =
                             Float(IF x <= 100 THEN x * 100 ELSE x)

\* a column left unscaled for the totals (120 in it) whose cell 0.5 gives an
\* assignment of 50, next to cells without assignment
C23_Witness ==
    /\ IsDbx /\ pc = "assigned" /\ NRows(df) = 2
    /\ Column(df, ColPct1) = <<PyStr(<<"0", ".", "5">>), PyStr(<<"1", "2", "0">>)>>
    /\ Column(df, ColPct3) = <<PyStr(<<"0">>), PyStr(<<"1">>)>>
    /\ Column(df, <<"computed_total_pct">>) = <<Float(50), Float(22000)>>
    /\ Len(workstream_df) = 3
    /\ workstream_df[1].allocation_pct = Float(5000)
    /\ workstream_df[2].allocation_pct = Float(12000)
    /\ workstream_df[3].allocation_pct = Float(10000)

(***************************************************************************)
(* The Resource table after load_latest_csv, checked under SpecProcess.    *)
(***************************************************************************)
\* C24: create_hierarchical_summary leaves the table it is given unchanged:
\* from the return of load_latest_csv to the return of process_pet_csv every
\* column of the Resource table keeps its values and their type.
C24_ResourceTableUnchanged ==
    [][(IsProcess /\ pc \in {"loaded", "summarized"}) => df' = df]_vars

\* the fields of the store that should_refresh and load_data assign
storeFields == <<last_check_time, current_file, current_data, last_modified>>

\* a call comes less than WATCH_INTERVAL_SECONDS after the recorded check
CalledWithinInterval == now - last_check_time < WATCH_INTERVAL_SECONDS
\* a matching file of the directory that the store has not recorded
UnrecordedFile ==
    \E f \in MatchingFiles(data_dir) :
        \/ current_file # Some(f.name)
        \/ ~last_modified.some
        \/ f.mtime > last_modified.val

UPLOADS_KEPT == 2

\* line 171: "uploaded" in name and "PET Resource Allocation" in name, on
\* the words of a name
IsUploadedName(name) ==
    /\ \E i \in 1..Len(name) : name[i] = "uploaded"
    /\ \E i \in 1..Len(name) :
          /\ i + 4 <= Len(name)
          /\ SubSeq(name, i, i + 4) = <<"PET", " ", "Resource", " ", "Allocation">>

UploadedFiles(dir) == {f \in dir : GlobCsv(f.name) /\ IsUploadedName(f.name)}

\* _cleanup_uploaded_files (lines 166-187): the directories it can leave;
\* the sort by mtime keeps files of the same mtime in the order of glob
_cleanup_uploaded_files(dir) ==
    IF Cardinality(UploadedFiles(dir)) <= UPLOADS_KEPT THEN {dir}
    ELSE {(dir \ UploadedFiles(dir)) \cup keep :
             keep \in {S \in SUBSET UploadedFiles(dir) :
                          /\ Cardinality(S) = UPLOADS_KEPT
                          /\ \A a \in S, b \in UploadedFiles(dir) \ S :
                                a.mtime >= b.mtime}}

UploadName(k) ==
    <<"uploaded", " ", "PET", " ", "Resource", " ", "Allocation", " ",
      DigitStr(k), CsvSuffix>>
UploadNames == {UploadName(k) : k \in 1..MaxUploads}

\* save_uploaded_file (lines 131-164): the cleanup, then the file is
\* written and last_modified reset; ok is FALSE when reading the upload or
\* writing the file raises
SaveUploadedFile ==
    /\ StoreIdle
    /\ \E filename \in UploadNames, content \in FileContents, ok \in BOOLEAN,
          cleaned \in _cleanup_uploaded_files(data_dir) :
          IF ok
          THEN /\ data_dir' = {f \in cleaned : f.name # filename}
                                 \cup {[name |-> filename, mtime |-> now,
                                        content |-> content]}
               /\ last_modified' = None
               /\ returned' = [method |-> "save_uploaded_file", some |-> TRUE,
                               val |-> <<TRUE>>, at |-> now, processed |-> FALSE]
          ELSE /\ data_dir' = cleaned
               /\ last_modified' = last_modified
               /\ returned' = [method |-> "save_uploaded_file", some |-> TRUE,
                               val |-> <<FALSE>>, at |-> now, processed |-> FALSE]
    /\ UNCHANGED <<now, last_check_time, current_file, current_data, loadVars,
                   parseVars, pairVars>>

NextUpload ==
    \/ SaveUploadedFile
    \/ \E force_refresh \in BOOLEAN : LoadData(force_refresh)
    \/ ProcessPetCsv
    \/ LoadDataFinish
    \/ Tick

SpecUpload == InitStore /\ [][NextUpload]_vars

\* the last call of the store that returned is a successful upload
JustSaved == returned.method = "save_uploaded_file" /\ returned.val = <<TRUE>>

\* C26: after save_uploaded_file has returned True, the next load_data
\* without force_refresh processes the latest file, at whatever time it is
\* called, also less than WATCH_INTERVAL_SECONDS after the previous check.
C26_NextLoadReprocesses ==
    [][(LoadData(FALSE) /\ JustSaved) => pc' = "start"]_vars

\* C27: after successful uploads at most 2 uploaded files are in the
\* directory.
C27_AtMostTwoUploads ==
    (StoreIdle /\ JustSaved) => Cardinality(UploadedFiles(data_dir)) <= 2

(***************************************************************************)
(* The store after a processing that failed, checked under SpecStore.      *)
(***************************************************************************)
\* the store has recorded the file f
Recorded(f) == current_file = Some(f.name) /\ last_modified = Some(f.mtime)
\* the latest file of the directory is the recorded one, not modified since
LatestUnchanged ==
    /\ current_file.some /\ last_modified.some
    /\ \A latest \in find_latest_file(data_dir) :
          /\ latest.some
          /\ current_file = Some(latest.val.name)
          /\ latest.val.mtime <= last_modified.val

\* C28: load_data(force_refresh=False) that goes on to process a file has
\* recorded it in current_file and last_modified before; when the
\* processing fails and load_data returns None, current_file, last_modified
\* and current_data stay as they are; and a later
\* load_data(force_refresh=False) with the file unchanged returns
\* current_data without processing the file again.
C28_FailedFileNotRetried ==
    [][/\ (LoadData(FALSE) /\ pc' # "idle") =>
              \E f \in MatchingFiles(data_dir) :
                  current_file' = Some(f.name) /\ last_modified' = Some(f.mtime)
       /\ (LoadDataFinish /\ ~returned'.some) =>
              UNCHANGED <<current_file, last_modified, current_data>>
       /\ (LoadData(FALSE) /\ LatestUnchanged) =>
              /\ pc' = "idle"
              /\ ~returned'.processed
              /\ <<returned'.some, returned'.val>> = <<current_data.some, current_data.val>>
              /\ UNCHANGED <<current_file, last_modified, current_data>>]_vars

\* load_data has checked the directory, the interval having elapsed, and
\* returned without processing the recorded file, which can be processed
C28_Witness ==
    /\ StoreIdle
    /\ returned.method = "load_data" /\ returned.at = now /\ ~returned.processed
    /\ last_check_time = now /\ now >= StartTime + WATCH_INTERVAL_SECONDS
    /\ LatestUnchanged
    /\ \E f \in MatchingFiles(data_dir) : Recorded(f) /\ f.content = GoodContent
    /\ current_data = None

(***************************************************************************)
(* process_pet_csv on files of one or two Director Orgs whose supervisor   *)
(* cells vary, the literals "Self" and "Unassigned" among them.            *)
(***************************************************************************)
SelfDirs == {<<"D">>, <<"E">>}
SelfSups == {<<>>, Alice, Bob, Self, Unassigned}

IsSelfFile(f) ==
    \E n \in 1..MaxSelfRows :
        \E dirs \in [1..n -> SelfDirs], sups \in [1..n -> SelfSups] :
            f = OrgFile([r \in 1..n |-> <<<<"A">>, <<"V">>, dirs[r]>>], sups)

InitSelf ==
    /\ IsSelfFile(file) \/ file = <<>>
    /\ LoaderStarts({"process_pet_csv"})

SpecSelf == InitSelf /\ [][ProcessPetCsv]_vars

\* the rows with a non-empty supervisor cell in the input
HeaderRows(orig) == {r \in 1..Len(orig) : orig[r].s # <<>>}
\* the blank-cell rows under the supervisor row h: those after h up to the
\* next supervisor row
ReportsOf(orig, h) ==
    {r \in (h + 1)..Len(orig) : \A k \in (h + 1)..r : orig[k].s = <<>>}
\* the Supervisor rows of the summary with this entity under this Director
SupervisorRows(e, dd) ==
    {i \in RowsAt("Supervisor") :
        hierarchy_df[i].entity = PyStr(e) /\ hierarchy_df[i].parent = PyStr(dd)}

\* under each Director Org: the supervisor rows of the input make one
\* "Self" row of the summary, and the row of a supervisor's identity counts
\* the blank-cell rows under the supervisor rows of that identity
SelfRowsApart(orig) ==
    \A dd \in SelfDirs :
        LET inpath == {r \in 1..NRows(df) : Column(df, DirCol)[r].s = dd}
            heads == HeaderRows(orig) \cap inpath
        IN  /\ Cardinality(SupervisorRows(Self, dd)) = IF heads = {} THEN 0 ELSE 1
            /\ CountSum(SupervisorRows(Self, dd)) = Cardinality(heads)
            /\ \A e \in {orig[h].s : h \in HeaderRows(orig)} :
                  /\ Cardinality(SupervisorRows(e, dd)) <= 1
                  /\ CountSum(SupervisorRows(e, dd)) =
                         Cardinality(inpath \cap
                             UNION {ReportsOf(orig, h) :
                                       h \in {k \in HeaderRows(orig) : orig[k].s = e}})

\* C29 as stated: in the Supervisor rows of the summary a resource whose
\* supervisor cell was non-empty is counted under "Self" and never under
\* the entity of its own supervisor value: the supervisor rows of one path
\* make a single "Self" row, and the row of a supervisor's identity counts
\* only that supervisor's blank-cell reports.
C29_SelfRowsApart ==
    Summarized => SelfRowsApart(Column(Mapped, SupCol))

\* C29 amended: the same, for the files in which no supervisor cell holds
\* the literal "Self" or "Unassigned".
C29_SelfRowsApartNoLiteral ==
    (Summarized /\ \A r \in 3..Len(file) : file[r][1] \notin {Self, Unassigned}) =>
        SelfRowsApart(Column(Mapped, SupCol))

\* two supervisor rows and a report of the first under one Director Org: a
\* "Self" row of two resources and a row of the first supervisor of one
C29_Witness ==
    /\ Summarized /\ Len(file) = 5
    /\ [r \in 1..3 |-> file[r + 2][1]] = <<Alice, <<>>, Bob>>
    /\ \A r \in 1..3 : file[r + 2][5] = <<"D">>
    /\ CountSum(SupervisorRows(Self, <<"D">>)) = 2
    /\ CountSum(SupervisorRows(Alice, <<"D">>)) = 1
    /\ SupervisorRows(Bob, <<"D">>) = {}

(***************************************************************************)
(* The resource counts of the summary, checked under SpecProcess.          *)
(***************************************************************************)
Levels == {"L3 Org", "VP Org", "Director Org", "Supervisor"}

\* C30: at each of the four levels of the summary every row has a
\* resource_count of at least 1, the denominator of the completion rate,
\* and the resource_count of the rows of the level add up to the number of
\* rows of the Resource table.
C30_EveryResourceCountedOnce ==
    Summarized =>
        \A level \in Levels :
            /\ RowsAt(level) # {}
            /\ \A i \in RowsAt(level) : hierarchy_df[i].resource_count >= 1
            /\ CountSum(RowsAt(level)) = NRows(df)

\* three resources, one of them with a total of 0, in two VP Orgs of one
\* L3 Org
C30_Witness ==
    /\ Summarized /\ NRows(df) = 3
    /\ \E r \in 1..3 : Total(df)[r].n = 0
    /\ Cardinality(RowsAt("L3 Org")) = 1
    /\ Cardinality(RowsAt("VP Org")) = 2

====
